---- MODULE Spec2Model ----
(***************************************************************************)
(* Disperser of the data-availability service: the shared blob store       *)
(* (object store + metadata store), the retry policy, the batcher /        *)
(* confirmer / finalizer pipeline that drives the blob status, the         *)
(* dispersal server (DisperseBlob, GetBlobStatus) and the rate limiter.    *)
(*                                                                         *)
(* Hashes are treated as collision-free: a digest is modelled by the       *)
(* sequence of values that was hashed.  Strings built with "%d/" are       *)
(* modelled by the sequence of the printed numbers.                        *)
(***************************************************************************)
EXTENDS Integers, Sequences, FiniteSets, TLC

\* ------------------------------------------------------------------ bounds
MaxBlobSize == 2          \* core.MaxBlobSize, scaled down
MaxReqAt == 2             \* request timestamps (ns) are 1..MaxReqAt
MaxTime == 2              \* wall clock (s) runs over 1..MaxTime
MaxTTL == 2               \* the configured ttl is 0 or MaxTTL
MaxBlobs == 2             \* metadata records kept by a behaviour
MaxBlock == 2             \* chain finalized head runs over 0..MaxBlock
MaxBatchID == 2           \* batch ids handed out by the chain contract
MaxCalls == 4             \* failure-handler calls per blob in RetrySpec
MaxServerBlobs == 1       \* metadata records kept by a ServerSpec behaviour
MaxClients == 2           \* concurrent GetBlobStatus calls
MaxCallers == 2           \* concurrent AllowRequest calls
WordBytes == 2            \* bytes of a [32]byte word, scaled down
MaxHeaders == 3           \* blob headers of a batch
MaxFetch == 3             \* metadata entries given to GetBlobsByMetadata
maxS3BlobFetchWorkers == 2 \* workers of the fetch pool (64), scaled down

\* ------------------------------------------------------- program constants
MaxNumRetriesPerBlob == 2
ConfirmerNum == 1
EmptySha == -2            \* sha256.New().Sum(b) appends the digest of "" to b
BlobPrefix == -1          \* the "blob/" prefix of blobObjectKey

Processing == "Processing"
Confirmed == "Confirmed"
Failed == "Failed"
Finalized == "Finalized"
InsufficientSignatures == "InsufficientSignatures"

BlobStatus == {Processing, Confirmed, Failed, Finalized, InsufficientSignatures}

VARIABLES
    metadataHashAsBlobKey, \* SharedBlobStore.metadataHashAsBlobKey
    ttl,                   \* blobMetadataStore.ttl (seconds)
    now,                   \* wall clock, seconds
    s3,                    \* object store: object key -> bytes
    metadataStore,         \* metadata records, in insertion order
    attempts,              \* history: blob key -> failure-handler calls
    batcher,               \* the batcher's current pull
    confirmers,            \* the batch each confirmer works on
    finalizer,             \* keys the finalizer loaded and will mark
    finalizedHead,         \* the chain's finalized head
    nextBatchID,           \* next batch id of the chain contract
    kv,                    \* storage cluster KV stream: request id -> entry
    latestFinalizedBlock,  \* DispersalServer.latestFinalizedBlock
    bucketStore,           \* rate limiter state: requester -> bucket params
    EnableRatelimiter,     \* Config.EnableRatelimiter
    CountFailed,           \* GlobalRateParams.CountFailed
    mu,                    \* DispersalServer.mu: the read/write lock
    mirror,                \* the mirror loop's position in its call
    statusCalls,           \* GetBlobStatus calls in flight, by client
    limiterCalls,          \* AllowRequest calls in flight, by caller
    fetch,                 \* the GetBlobsByMetadata call in flight
    reply                  \* outcome of the last operation

vars == <<metadataHashAsBlobKey, ttl, now, s3, metadataStore, attempts,
          batcher, confirmers, finalizer, finalizedHead, nextBatchID, kv,
          latestFinalizedBlock, bucketStore, EnableRatelimiter, CountFailed,
          mu, mirror, statusCalls, limiterCalls, fetch, reply>>

storeVars == <<s3, metadataStore, attempts>>
pipeVars == <<batcher, confirmers, finalizer, finalizedHead, nextBatchID>>
procVars == <<mu, mirror, statusCalls, limiterCalls>>
serverVars == <<kv, latestFinalizedBlock, bucketStore, procVars>>
configVars == <<metadataHashAsBlobKey, ttl, EnableRatelimiter, CountFailed>>

\* ------------------------------------------------------------ input sets
ByteVals == {0, 1}
Data == UNION {[1..n -> ByteVals] : n \in 0..(MaxBlobSize + 1)}

SecurityParam(q, a, t) ==
    [QuorumID |-> q, AdversaryThreshold |-> a, QuorumThreshold |-> t]

ParamLists == {<<SecurityParam(0, 1, 2)>>, <<SecurityParam(0, 1, 3)>>}

ReqTimes == 1..MaxReqAt

Blob(data, params) ==
    [RequestHeader |-> [SecurityParams |-> params], Data |-> data]

\* ----------------------------------------------------------------- keys
RECURSIVE paramStr(_)
paramStr(params) ==
    IF params = <<>> THEN <<>>
    ELSE <<Head(params).QuorumID, Head(params).AdversaryThreshold>>
             \o paramStr(Tail(params))

getMetadataHash(requestedAt, securityParams) ==
    (<<requestedAt>> \o paramStr(securityParams)) \o <<EmptySha>>

getBlobHash(blob) == blob.Data

blobObjectKey(blobHash) == <<BlobPrefix>> \o blobHash

BlobKey(blobHash, metadataHash) ==
    [BlobHash |-> blobHash, MetadataHash |-> metadataHash]

GetBlobKey(m) == BlobKey(m.BlobHash, m.MetadataHash)

\* BlobKey.String(): BlobHash + "-" + MetadataHash, as its "-"-separated parts
KeyString(key) == <<key.BlobHash, key.MetadataHash>>

\* --------------------------------------------------------- object store
HasObject(objs, k) == k \in DOMAIN objs

UploadObject(objs, k, data) ==
    [x \in (DOMAIN objs) \cup {k} |-> IF x = k THEN data ELSE objs[x]]

DeleteObject(objs, k) == [x \in (DOMAIN objs) \ {k} |-> objs[x]]

\* ------------------------------------------------------- metadata store
Find(store, key) == {i \in 1..Len(store) : GetBlobKey(store[i]) = key}

HasMetadata(store, key) == Find(store, key) # {}

GetBlobMetadata(store, key) == store[CHOOSE i \in Find(store, key) : TRUE]

QueueNewBlobMetadata(store, m) ==
    IF HasMetadata(store, GetBlobKey(m))
    THEN [i \in 1..Len(store) |->
             IF GetBlobKey(store[i]) = GetBlobKey(m) THEN m ELSE store[i]]
    ELSE Append(store, m)

UpdateBlobMetadata(store, key, m) ==
    IF HasMetadata(store, key)
    THEN [i \in 1..Len(store) |->
             IF GetBlobKey(store[i]) = key THEN m ELSE store[i]]
    ELSE Append(store, m)

SetBlobStatus(store, key, status) ==
    [i \in 1..Len(store) |->
        IF GetBlobKey(store[i]) = key
        THEN [store[i] EXCEPT !.BlobStatus = status]
        ELSE store[i]]

IncrementNumRetries(store, m) ==
    [i \in 1..Len(store) |->
        IF GetBlobKey(store[i]) = GetBlobKey(m)
        THEN [store[i] EXCEPT !.NumRetries = @ + 1]
        ELSE store[i]]

RemoveBlobMetadata(store, m) ==
    SelectSeq(store, LAMBDA r : GetBlobKey(r) # GetBlobKey(m))

GetBlobMetadataByStatus(store, status) ==
    SelectSeq(store, LAMBDA r : r.BlobStatus = status)

\* ------------------------------------------------------ SharedBlobStore
ObjectKey(mode, blobHash, metadataHash) ==
    IF mode THEN metadataHash ELSE blobObjectKey(blobHash)

NewMetadata_AlwaysExpires(blob, requestedAt, t, clock) ==
    [BlobHash |-> getBlobHash(blob),
     MetadataHash |->
         getMetadataHash(requestedAt, blob.RequestHeader.SecurityParams),
     NumRetries |-> 0,
     BlobStatus |-> Processing,
     Expiry |-> clock + t,
     RequestMetadata |->
         [BlobRequestHeader |-> blob.RequestHeader,
          BlobSize |-> Len(blob.Data),
          RequestedAt |-> requestedAt],
     ConfirmationInfo |-> <<>>]

NewMetadata(blob, requestedAt, t, clock) ==
    [BlobHash |-> getBlobHash(blob),
     MetadataHash |->
         getMetadataHash(requestedAt, blob.RequestHeader.SecurityParams),
     NumRetries |-> 0,
     BlobStatus |-> Processing,
     Expiry |-> IF t > 0 THEN clock + t ELSE 0,
     RequestMetadata |->
         [BlobRequestHeader |-> blob.RequestHeader,
          BlobSize |-> Len(blob.Data),
          RequestedAt |-> requestedAt],
     ConfirmationInfo |-> <<>>]

\* StoreBlob: the object is uploaded first, the metadata is queued only
\* when the upload succeeded.
StoreBlobKey(blob, requestedAt) ==
    BlobKey(getBlobHash(blob),
            getMetadataHash(requestedAt, blob.RequestHeader.SecurityParams))

StoreBlobObjects(objs, mode, blob, requestedAt, upOk) ==
    IF upOk
    THEN UploadObject(objs,
             ObjectKey(mode, getBlobHash(blob),
                 getMetadataHash(requestedAt,
                                 blob.RequestHeader.SecurityParams)),
             blob.Data)
    ELSE objs

StoreBlobMetadata(store, blob, requestedAt, t, clock, upOk, metaOk) ==
    IF upOk /\ metaOk
    THEN QueueNewBlobMetadata(store, NewMetadata(blob, requestedAt, t, clock))
    ELSE store

StoreBlobErr(upOk, metaOk) ==
    IF ~upOk THEN "upload" ELSE IF ~metaOk THEN "metadata" ELSE ""

ResetAttempts(att, key) ==
    [k \in (DOMAIN att) \cup {key} |-> IF k = key THEN 0 ELSE att[k]]

DropAttempts(att, key) == [k \in (DOMAIN att) \ {key} |-> att[k]]

BumpAttempts(att, key) ==
    [k \in DOMAIN att |-> IF k = key THEN att[k] + 1 ELSE att[k]]

StoreBlob(blob, requestedAt, upOk, metaOk) ==
    /\ \/ HasMetadata(metadataStore, StoreBlobKey(blob, requestedAt))
       \/ Len(metadataStore) < MaxBlobs
    /\ s3' = StoreBlobObjects(s3, metadataHashAsBlobKey, blob, requestedAt,
                              upOk)
    /\ metadataStore' = StoreBlobMetadata(metadataStore, blob, requestedAt,
                                          ttl, now, upOk, metaOk)
    /\ attempts' = IF upOk /\ metaOk
                   THEN ResetAttempts(attempts,
                                      StoreBlobKey(blob, requestedAt))
                   ELSE attempts
    /\ reply' = [op |-> "StoreBlob",
                 err |-> StoreBlobErr(upOk, metaOk),
                 arg |-> blob,
                 res |-> StoreBlobKey(blob, requestedAt)]

\* RemoveBlob deletes the object stored under metadata.MetadataHash and then
\* the metadata record.
RemoveBlobObjects(objs, m, delOk) ==
    IF delOk THEN DeleteObject(objs, m.MetadataHash) ELSE objs

RemoveBlobStore(store, m, delOk, metaOk) ==
    IF delOk /\ metaOk THEN RemoveBlobMetadata(store, m) ELSE store

RemoveBlob(m, delOk, metaOk) ==
    /\ s3' = RemoveBlobObjects(s3, m, delOk)
    /\ metadataStore' = RemoveBlobStore(metadataStore, m, delOk, metaOk)
    /\ attempts' = IF delOk /\ metaOk
                   THEN DropAttempts(attempts, GetBlobKey(m))
                   ELSE attempts
    /\ reply' = [op |-> "RemoveBlob",
                 err |-> IF ~delOk THEN "delete"
                         ELSE IF ~metaOk THEN "metadata" ELSE "",
                 arg |-> m,
                 res |-> GetBlobKey(m)]

\* GetBlobContent: the object key the download uses for a metadata record
GetBlobContentKey(mode, m) == ObjectKey(mode, m.BlobHash, m.MetadataHash)

MarkBlobFailed(store, key) == SetBlobStatus(store, key, Failed)

MarkBlobFinalized(store, key) == SetBlobStatus(store, key, Finalized)

MarkBlobProcessing(store, key) == SetBlobStatus(store, key, Processing)

IncrementBlobRetryCount(store, m) == IncrementNumRetries(store, m)

MarkBlobConfirmed(store, existing, confirmationInfo, t, clock) ==
    UpdateBlobMetadata(store, GetBlobKey(existing),
        [existing EXCEPT
            !.Expiry = IF existing.Expiry < clock + t
                       THEN clock + t ELSE existing.Expiry,
            !.BlobStatus = Confirmed,
            !.ConfirmationInfo = <<confirmationInfo>>])

HandleBlobFailure_OffByOne(store, m, maxRetry) ==
    IF m.NumRetries <= maxRetry
    THEN IncrementBlobRetryCount(store, m)
    ELSE MarkBlobFailed(store, GetBlobKey(m))

HandleBlobFailure(store, m, maxRetry) ==
    IF m.NumRetries < maxRetry
    THEN IncrementBlobRetryCount(store, m)
    ELSE MarkBlobFailed(store, GetBlobKey(m))

\* ------------------------------------------------------------------ Init
IdleBatch == [phase |-> "idle", blobs |-> <<>>]

\* no GetBlobsByMetadata call in flight
IdleFetch ==
    [pc |-> "idle", n |-> 0, downOk |-> <<>>, task |-> <<>>, cap |-> 0,
     chan |-> <<>>, closed |-> FALSE, read |-> 0, err |-> ""]

\* the state after construction; the configuration is fixed per behaviour
StartServices ==
    /\ now = 1
    /\ s3 = <<>>
    /\ metadataStore = <<>>
    /\ attempts = <<>>
    /\ batcher = IdleBatch
    /\ confirmers = [c \in 1..ConfirmerNum |-> <<>>]
    /\ finalizer = <<>>
    /\ finalizedHead = 0
    /\ nextBatchID = 0
    /\ latestFinalizedBlock = 0
    /\ bucketStore = <<>>
    /\ mu = [writer |-> FALSE, readers |-> 0]
    /\ mirror = [pc |-> "idle", number |-> 0]
    /\ statusCalls = [c \in 1..MaxClients |-> <<>>]
    /\ limiterCalls = [c \in 1..MaxCallers |-> <<>>]
    /\ fetch = IdleFetch
    /\ reply = [op |-> "init", err |-> "", arg |-> <<>>, res |-> <<>>]

\* nothing stored, nothing published, nothing in flight
Start == StartServices /\ kv = <<>>

StoreInit ==
    /\ Start
    /\ metadataHashAsBlobKey \in BOOLEAN
    /\ ttl \in {0, MaxTTL}
    /\ EnableRatelimiter = FALSE
    /\ CountFailed = FALSE

Tick ==
    /\ now < MaxTime
    /\ now' = now + 1
    /\ reply' = [op |-> "Tick", err |-> "", arg |-> <<>>, res |-> <<>>]
    /\ UNCHANGED <<configVars, fetch, storeVars, pipeVars, serverVars>>

\* ---------------------------------------------- blob store, called directly
StoreData == {<<0>>, <<1>>}

StoreBlobCall ==
    \E data \in StoreData, params \in ParamLists, requestedAt \in ReqTimes,
       upOk \in BOOLEAN, metaOk \in BOOLEAN :
        /\ StoreBlob(Blob(data, params), requestedAt, upOk, metaOk)
        /\ UNCHANGED <<configVars, fetch, now, pipeVars, serverVars>>

RemoveBlobCall ==
    \E i \in 1..Len(metadataStore), delOk \in BOOLEAN, metaOk \in BOOLEAN :
        /\ RemoveBlob(metadataStore[i], delOk, metaOk)
        /\ UNCHANGED <<configVars, fetch, now, pipeVars, serverVars>>

\* a failure handler that is given the currently stored metadata
HandleBlobFailureCall ==
    \E i \in 1..Len(metadataStore) :
        LET m == metadataStore[i] IN
        /\ attempts[GetBlobKey(m)] < MaxCalls
        /\ metadataStore' =
               HandleBlobFailure(metadataStore, m, MaxNumRetriesPerBlob)
        /\ attempts' = BumpAttempts(attempts, GetBlobKey(m))
        /\ reply' = [op |-> "HandleBlobFailure", err |-> "", arg |-> m,
                     res |-> GetBlobKey(m)]
        /\ UNCHANGED <<configVars, fetch, now, s3, pipeVars, serverVars>>

\* a StoreBlob whose two store calls succeed; one request time, so that a
\* blob is told from another by its data
StoreBlobOk ==
    \E data \in StoreData, params \in ParamLists, requestedAt \in {1} :
        /\ StoreBlob(Blob(data, params), requestedAt, TRUE, TRUE)
        /\ UNCHANGED <<configVars, fetch, now, pipeVars, serverVars>>

\* the blob store under StoreBlob / RemoveBlob with failing store calls
StoreNext == StoreBlobCall \/ RemoveBlobCall \/ Tick

StoreSpec == StoreInit /\ [][StoreNext]_vars

\* the retry policy, every handler being given the stored metadata
RetryNext == StoreBlobOk \/ HandleBlobFailureCall

RetrySpec == StoreInit /\ [][RetryNext]_vars

\* C3: every metadata record that exists has its blob object present in the
\* object store under the key GetBlobContent uses for it.
C3_MetadataImpliesObject ==
    \A i \in 1..Len(metadataStore) :
        HasObject(s3, GetBlobContentKey(metadataHashAsBlobKey,
                                        metadataStore[i]))

\* C6: a HandleBlobFailure call increments NumRetries by exactly one and
\* keeps the status when metadata.NumRetries < maxRetry, and otherwise sets
\* the status to Failed and keeps NumRetries; so a blob whose handlers are
\* given the stored metadata is Processing with NumRetries = n after
\* failure n <= maxRetry, and Failed from failure maxRetry + 1 on.
C6_Step ==
    reply'.op = "HandleBlobFailure" =>
        LET m == reply'.arg
            old == GetBlobMetadata(metadataStore, GetBlobKey(m))
            new == GetBlobMetadata(metadataStore', GetBlobKey(m))
        IN  /\ Len(metadataStore') = Len(metadataStore)
            /\ IF m.NumRetries < MaxNumRetriesPerBlob
               THEN /\ new.NumRetries = old.NumRetries + 1
                    /\ new.BlobStatus = old.BlobStatus
               ELSE /\ new.BlobStatus = Failed
                    /\ new.NumRetries = old.NumRetries

C6_Ladder ==
    \A i \in 1..Len(metadataStore) :
        LET m == metadataStore[i]
            n == attempts[GetBlobKey(m)]
        IN  /\ n <= MaxNumRetriesPerBlob =>
                   m.BlobStatus = Processing /\ m.NumRetries = n
            /\ n > MaxNumRetriesPerBlob =>
                   m.BlobStatus = Failed
                   /\ m.NumRetries = MaxNumRetriesPerBlob

C6_HandleBlobFailure == [][C6_Step]_vars /\ []C6_Ladder

C6_Witness ==
    /\ reply.op = "HandleBlobFailure"
    /\ reply.arg.NumRetries = MaxNumRetriesPerBlob
    /\ attempts[reply.res] = MaxNumRetriesPerBlob + 1
    /\ GetBlobMetadata(metadataStore, reply.res).BlobStatus = Failed

\* --------------------------------------- batcher, confirmers and finalizer
RECURSIVE FailAll(_, _)
FailAll(store, blobs) ==
    IF blobs = <<>> THEN store
    ELSE FailAll(HandleBlobFailure(store, Head(blobs), MaxNumRetriesPerBlob),
                 Tail(blobs))

RECURSIVE BumpAll(_, _)
BumpAll(att, blobs) ==
    IF blobs = <<>> THEN att
    ELSE BumpAll(BumpAttempts(att, GetBlobKey(Head(blobs))), Tail(blobs))

NewConfirmationInfo(batchID, blobIndex, block) ==
    [BatchID |-> batchID, BlobIndex |-> blobIndex,
     ConfirmationBlockNumber |-> block]

RECURSIVE ConfirmAll(_, _, _, _, _, _, _)
ConfirmAll(store, blobs, blobIndex, batchID, block, t, clock) ==
    IF blobs = <<>> THEN store
    ELSE ConfirmAll(
             MarkBlobConfirmed(store, Head(blobs),
                 NewConfirmationInfo(batchID, blobIndex, block), t, clock),
             Tail(blobs), blobIndex + 1, batchID, block, t, clock)

RECURSIVE FinalizeAll(_, _)
FinalizeAll(store, keys) ==
    IF keys = <<>> THEN store
    ELSE FinalizeAll(MarkBlobFinalized(store, Head(keys)), Tail(keys))

SubSeqAt(blobs, idx) ==
    LET F[i \in 0..Len(blobs)] ==
            IF i = 0 THEN <<>>
            ELSE IF i \in idx THEN Append(F[i - 1], blobs[i]) ELSE F[i - 1]
    IN  F[Len(blobs)]

PipeReply(name, blobs) ==
    [op |-> name, err |-> "", arg |-> blobs, res |-> <<>>]

\* a request accepted by DisperseBlob; requests arrive at distinct nanoseconds
Ingest ==
    \E data \in StoreData :
        /\ Len(metadataStore) < MaxBlobs
        /\ StoreBlob(Blob(data, <<SecurityParam(0, 1, 2)>>),
                     Len(metadataStore) + 1, TRUE, TRUE)
        /\ UNCHANGED <<configVars, fetch, now, pipeVars, serverVars>>

\* one pull: fetch all Processing metadata
Pull ==
    /\ batcher.phase = "idle"
    /\ GetBlobMetadataByStatus(metadataStore, Processing) # <<>>
    /\ batcher' = [phase |-> "encoding",
                   blobs |-> GetBlobMetadataByStatus(metadataStore,
                                                     Processing)]
    /\ reply' = PipeReply("Pull", <<>>)
    /\ UNCHANGED <<configVars, fetch, now, storeVars, confirmers, finalizer,
                   finalizedHead, nextBatchID, serverVars>>

\* encode fan-out: the blobs whose encoding failed go through
\* HandleBlobFailure and leave the batch
EncodeBatch ==
    \E failed \in SUBSET (1..Len(batcher.blobs)) :
        LET bad == SubSeqAt(batcher.blobs, failed)
            good == SubSeqAt(batcher.blobs, (1..Len(batcher.blobs)) \ failed)
        IN  /\ batcher.phase = "encoding"
            /\ metadataStore' = FailAll(metadataStore, bad)
            /\ attempts' = BumpAll(attempts, bad)
            /\ batcher' = IF good = <<>> THEN IdleBatch
                          ELSE [phase |-> "encoded", blobs |-> good]
            /\ reply' = PipeReply("EncodeBatch", bad)
            /\ UNCHANGED <<configVars, fetch, now, s3, confirmers, finalizer,
                           finalizedHead, nextBatchID, serverVars>>

\* the upload to the storage cluster failed: the batch is dropped
UploadFail ==
    /\ batcher.phase = "encoded"
    /\ metadataStore' = FailAll(metadataStore, batcher.blobs)
    /\ attempts' = BumpAll(attempts, batcher.blobs)
    /\ batcher' = IdleBatch
    /\ reply' = PipeReply("UploadFail", batcher.blobs)
    /\ UNCHANGED <<configVars, fetch, now, s3, confirmers, finalizer,
                   finalizedHead, nextBatchID, serverVars>>

\* hand the batch to an idle confirmer
HandOff ==
    \E c \in 1..ConfirmerNum :
        /\ batcher.phase = "encoded"
        /\ confirmers[c] = <<>>
        /\ confirmers' = [confirmers EXCEPT ![c] = batcher.blobs]
        /\ batcher' = IdleBatch
        /\ reply' = PipeReply("HandOff", <<>>)
        /\ UNCHANGED <<configVars, fetch, now, storeVars, finalizer, finalizedHead,
                       nextBatchID, serverVars>>

\* the chain transaction succeeded: every blob of the batch is confirmed
ConfirmBatch ==
    \E c \in 1..ConfirmerNum :
        /\ confirmers[c] # <<>>
        /\ nextBatchID < MaxBatchID
        /\ metadataStore' = ConfirmAll(metadataStore, confirmers[c], 0,
                                nextBatchID, finalizedHead + 1, ttl, now)
        /\ nextBatchID' = nextBatchID + 1
        /\ confirmers' = [confirmers EXCEPT ![c] = <<>>]
        /\ reply' = PipeReply("ConfirmBatch", confirmers[c])
        /\ UNCHANGED <<configVars, fetch, now, s3, attempts, batcher, finalizer,
                       finalizedHead, serverVars>>

\* submission or receipt failed: every blob goes through HandleBlobFailure
ChainFail ==
    \E c \in 1..ConfirmerNum :
        /\ confirmers[c] # <<>>
        /\ metadataStore' = FailAll(metadataStore, confirmers[c])
        /\ attempts' = BumpAll(attempts, confirmers[c])
        /\ confirmers' = [confirmers EXCEPT ![c] = <<>>]
        /\ reply' = PipeReply("ChainFail", confirmers[c])
        /\ UNCHANGED <<configVars, fetch, now, s3, batcher, finalizer,
                       finalizedHead, nextBatchID, serverVars>>

ChainFinalize ==
    /\ finalizedHead < MaxBlock
    /\ finalizedHead' = finalizedHead + 1
    /\ reply' = PipeReply("ChainFinalize", <<>>)
    /\ UNCHANGED <<configVars, fetch, now, storeVars, batcher, confirmers,
                   finalizer, nextBatchID, serverVars>>

Finalizable(store, head) ==
    LET F[i \in 0..Len(store)] ==
            IF i = 0 THEN <<>>
            ELSE IF /\ store[i].BlobStatus = Confirmed
                    /\ store[i].ConfirmationInfo # <<>>
                    /\ store[i].ConfirmationInfo[1].ConfirmationBlockNumber
                           <= head
                 THEN Append(F[i - 1], GetBlobKey(store[i]))
                 ELSE F[i - 1]
    IN  F[Len(store)]

\* the finalizer loads the Confirmed metadata at or below the finalized head
FinalizerLoad ==
    /\ finalizer = <<>>
    /\ Finalizable(metadataStore, finalizedHead) # <<>>
    /\ finalizer' = Finalizable(metadataStore, finalizedHead)
    /\ reply' = PipeReply("FinalizerLoad", <<>>)
    /\ UNCHANGED <<configVars, fetch, now, storeVars, batcher, confirmers,
                   finalizedHead, nextBatchID, serverVars>>

\* ... and marks each of them Finalized
FinalizerMark ==
    /\ finalizer # <<>>
    /\ metadataStore' = FinalizeAll(metadataStore, finalizer)
    /\ finalizer' = <<>>
    /\ reply' = PipeReply("FinalizerMark", finalizer)
    /\ UNCHANGED <<configVars, fetch, now, s3, attempts, batcher, confirmers,
                   finalizedHead, nextBatchID, serverVars>>

PipelineNext ==
    \/ Ingest
    \/ Pull
    \/ EncodeBatch
    \/ UploadFail
    \/ HandOff
    \/ ConfirmBatch
    \/ ChainFail
    \/ ChainFinalize
    \/ FinalizerLoad
    \/ FinalizerMark

PipelineSpec == StoreInit /\ [][PipelineNext]_vars

\* C1: the stored status of a blob only moves along the edges of the
\* status state machine.
C1_Edges ==
    {<<Processing, Processing>>, <<Processing, Confirmed>>,
     <<Processing, Failed>>, <<Confirmed, Finalized>>,
     <<Confirmed, InsufficientSignatures>>}

C1_Step ==
    \A i \in 1..Len(metadataStore) :
        LET k == GetBlobKey(metadataStore[i]) IN
        HasMetadata(metadataStore', k) =>
            LET old == metadataStore[i].BlobStatus
                new == GetBlobMetadata(metadataStore', k).BlobStatus
            IN  old # new => <<old, new>> \in C1_Edges

C1_StatusMonotonic == [][C1_Step]_vars

\* C2: a blob has at most one transition into Confirmed, and once its
\* ConfirmationInfo is written no later operation changes it.
C2_Step ==
    \A i \in 1..Len(metadataStore) :
        LET k == GetBlobKey(metadataStore[i])
            old == metadataStore[i]
        IN  (old.ConfirmationInfo # <<>> /\ HasMetadata(metadataStore', k)) =>
                LET new == GetBlobMetadata(metadataStore', k) IN
                /\ new.ConfirmationInfo = old.ConfirmationInfo
                /\ ~(old.BlobStatus # Confirmed /\ new.BlobStatus = Confirmed)
                /\ reply'.op = "ConfirmBatch" =>
                       \A j \in 1..Len(reply'.arg) :
                           GetBlobKey(reply'.arg[j]) # k

C2_ConfirmedOnce == [][C2_Step]_vars

\* C7: the stored NumRetries of a blob never decreases and never exceeds
\* MaxNumRetriesPerBlob.
C7_Bounded ==
    \A i \in 1..Len(metadataStore) :
        metadataStore[i].NumRetries <= MaxNumRetriesPerBlob

C7_Step ==
    \A i \in 1..Len(metadataStore) :
        LET k == GetBlobKey(metadataStore[i]) IN
        HasMetadata(metadataStore', k) =>
            GetBlobMetadata(metadataStore', k).NumRetries
                >= metadataStore[i].NumRetries

C7_NumRetries == []C7_Bounded /\ [][C7_Step]_vars

\* C8: an accepted blob leaves Processing after at most
\* MaxNumRetriesPerBlob + 1 failed attempts.
C8_BoundedRetries ==
    \A i \in 1..Len(metadataStore) :
        attempts[GetBlobKey(metadataStore[i])] > MaxNumRetriesPerBlob =>
            metadataStore[i].BlobStatus # Processing

\* ------------------------------------------------------------ rate limiter
MicrosPerSecond == 1000000

BucketSizes == <<2, 3>>

Multipliers == <<1, 2>>

Allowlist == << <<2>> >>

Requesters == {<<1>>, <<1, 2>>}

Rates == {MicrosPerSecond, 2 * MicrosPerSecond}

\* strings.Contains
Contains(str, sub) ==
    \E i \in 0..(Len(str) - Len(sub)) :
        \A j \in 1..Len(sub) : str[i + j] = sub[j]

Allowlisted_Exact(requesterID) ==
    \E i \in 1..Len(Allowlist) : requesterID = Allowlist[i]

Allowlisted(requesterID) ==
    \E i \in 1..Len(Allowlist) : Contains(requesterID, Allowlist[i])

getBucketLevel_NoRefill(bucketLevel, bucketSize, interval, deduction) ==
    LET newLevel == bucketLevel - deduction IN
    IF newLevel < 0 THEN 0
    ELSE IF newLevel > bucketSize THEN bucketSize
    ELSE newLevel

getBucketLevel_NoCap(bucketLevel, bucketSize, interval, deduction) ==
    LET newLevel == bucketLevel + interval - deduction IN
    IF newLevel < 0 THEN 0 ELSE newLevel

getBucketLevel(bucketLevel, bucketSize, interval, deduction) ==
    LET newLevel == bucketLevel + interval - deduction IN
    IF newLevel < 0 THEN 0
    ELSE IF newLevel > bucketSize THEN bucketSize
    ELSE newLevel

Deduction_NoMultiplier(blobSize, rate, i) ==
    (MicrosPerSecond * blobSize) \div rate

\* time.Microsecond * Duration(1e6 * blobSize / rate / Multipliers[i])
Deduction(blobSize, rate, i) ==
    (MicrosPerSecond * blobSize) \div (rate * Multipliers[i])

GetBucketParams_EmptyAtFirstSight(store, requesterID, getOk, clock) ==
    IF getOk /\ requesterID \in DOMAIN store
    THEN store[requesterID]
    ELSE [BucketLevels |-> [i \in 1..Len(BucketSizes) |-> 0],
          LastRequestTime |-> clock]

\* GetItem; on any error the requester is treated as seen for the first time
GetBucketParams(store, requesterID, getOk, clock) ==
    IF getOk /\ requesterID \in DOMAIN store
    THEN store[requesterID]
    ELSE [BucketLevels |-> BucketSizes, LastRequestTime |-> clock]

NewBucketParams(store, requesterID, blobSize, rate, getOk, clock) ==
    LET old == GetBucketParams(store, requesterID, getOk, clock)
        interval == clock - old.LastRequestTime
    IN  [BucketLevels |->
             [i \in 1..Len(BucketSizes) |->
                 getBucketLevel(old.BucketLevels[i], BucketSizes[i],
                                interval, Deduction(blobSize, rate, i))],
         LastRequestTime |-> clock]

AllowRequestAllowed(store, requesterID, blobSize, rate, getOk, clock) ==
    \/ Allowlisted(requesterID)
    \/ \A i \in 1..Len(BucketSizes) :
           NewBucketParams(store, requesterID, blobSize, rate, getOk,
                           clock).BucketLevels[i] > 0

AllowRequestStore_Always(store, requesterID, blobSize, rate, getOk, updOk, clock, countFailed) ==
    IF Allowlisted(requesterID) THEN store
    ELSE IF updOk
         THEN [r \in (DOMAIN store) \cup {requesterID} |->
                  IF r = requesterID
                  THEN NewBucketParams(store, requesterID, blobSize, rate,
                                       getOk, clock)
                  ELSE store[r]]
         ELSE store

AllowRequestStore(store, requesterID, blobSize, rate, getOk, updOk, clock, countFailed) ==
    IF Allowlisted(requesterID) THEN store
    ELSE IF /\ \/ AllowRequestAllowed(store, requesterID, blobSize, rate,
                                      getOk, clock)
               \/ countFailed
            /\ updOk
         THEN [r \in (DOMAIN store) \cup {requesterID} |->
                  IF r = requesterID
                  THEN NewBucketParams(store, requesterID, blobSize, rate,
                                       getOk, clock)
                  ELSE store[r]]
         ELSE store

AllowRequestErr_Swallowed(store, requesterID, blobSize, rate, getOk, updOk, clock, countFailed) == ""

AllowRequestErr(store, requesterID, blobSize, rate, getOk, updOk, clock, countFailed) ==
    IF Allowlisted(requesterID) THEN ""
    ELSE IF /\ \/ AllowRequestAllowed(store, requesterID, blobSize, rate,
                                      getOk, clock)
               \/ countFailed
            /\ ~updOk
         THEN "update"
         ELSE ""

AllowRequestCall(requesterID, blobSize, rate, getOk, updOk) ==
    /\ bucketStore' = AllowRequestStore(bucketStore, requesterID,
                          blobSize, rate, getOk, updOk, now, CountFailed)
    /\ reply' = [op |-> "AllowRequest",
                 err |-> AllowRequestErr(bucketStore, requesterID,
                             blobSize, rate, getOk, updOk, now,
                             CountFailed),
                 arg |-> [requesterID |-> requesterID,
                          blobSize |-> blobSize, rate |-> rate,
                          getOk |-> getOk, updOk |-> updOk],
                 res |-> AllowRequestAllowed(bucketStore, requesterID,
                             blobSize, rate, getOk, now)]
    /\ UNCHANGED <<configVars, fetch, now, storeVars, pipeVars, kv,
                   latestFinalizedBlock, procVars>>

AllowRequest ==
    \E requesterID \in Requesters, blobSize \in 1..MaxBlobSize,
       rate \in Rates, getOk \in BOOLEAN, updOk \in BOOLEAN :
        AllowRequestCall(requesterID, blobSize, rate, getOk, updOk)

LimiterInit ==
    /\ Start
    /\ metadataHashAsBlobKey = FALSE
    /\ ttl = 0
    /\ EnableRatelimiter = TRUE
    /\ CountFailed \in BOOLEAN

LimiterNext == AllowRequest \/ Tick

LimiterSpec == LimiterInit /\ [][LimiterNext]_vars

\* requesters that keep to the rate: none of them is allowlisted
PacedRequesters == {<<1>>, <<3>>}

\* the request of blobSize at rate keeps to the rate: its deduction is below
\* the bucket size on every tier, and the requester's previous request, if
\* any, is at least the largest of its deductions back
Paced(store, requesterID, blobSize, rate, clock) ==
    \A i \in 1..Len(BucketSizes) :
        /\ Deduction(blobSize, rate, i) < BucketSizes[i]
        /\ requesterID \in DOMAIN store =>
               clock - store[requesterID].LastRequestTime
                   >= Deduction(blobSize, rate, i)

\* sequential requests that keep to the rate, the store calls succeeding
PacedRequest ==
    \E requesterID \in PacedRequesters, blobSize \in 1..MaxBlobSize,
       rate \in Rates :
        /\ Paced(bucketStore, requesterID, blobSize, rate, now)
        /\ AllowRequestCall(requesterID, blobSize, rate, TRUE, TRUE)

PacedNext == PacedRequest \/ Tick

PacedSpec == LimiterInit /\ [][PacedNext]_vars

\* -------------------------------------------------------- DispersalServer
DisperseRate == MicrosPerSecond

\* the call of DisperseBlob that fails, if any
FailurePoints == {"none", "origin", "upload", "metadata"}

DisperseData ==
    {[i \in 1..n |-> 0] : n \in 0..(MaxBlobSize + 1)}

DisperseBlobErr_Exclusive(blobSize, originOk, upOk, metaOk) ==
    IF blobSize >= MaxBlobSize THEN "size"
    ELSE IF blobSize = 0 THEN "size"
    ELSE IF ~originOk THEN "origin"
    ELSE IF StoreBlobErr(upOk, metaOk) # "" THEN "store"
    ELSE ""

\* the error DisperseBlob returns: "" when the blob was stored
DisperseBlobErr(blobSize, originOk, upOk, metaOk) ==
    IF blobSize > MaxBlobSize THEN "size"
    ELSE IF blobSize = 0 THEN "size"
    ELSE IF ~originOk THEN "origin"
    ELSE IF StoreBlobErr(upOk, metaOk) # "" THEN "store"
    ELSE ""

DisperseBlob ==
    \E data \in DisperseData, origin \in Requesters,
       requestedAt \in {1}, failAt \in FailurePoints :
        LET originOk == failAt # "origin"
            upOk == failAt # "upload"
            metaOk == failAt # "metadata"
            blob == Blob(data, <<SecurityParam(0, 1, 2)>>)
            err == DisperseBlobErr(Len(data), originOk, upOk, metaOk)
            stored == err \in {"", "store"}
        IN  /\ \/ ~stored
               \/ HasMetadata(metadataStore, StoreBlobKey(blob, requestedAt))
               \/ Len(metadataStore) < MaxServerBlobs
            /\ s3' = IF stored
                     THEN StoreBlobObjects(s3, metadataHashAsBlobKey, blob,
                                           requestedAt, upOk)
                     ELSE s3
            /\ metadataStore' =
                   IF stored
                   THEN StoreBlobMetadata(metadataStore, blob, requestedAt,
                                          ttl, now, upOk, metaOk)
                   ELSE metadataStore
            /\ attempts' = IF err = ""
                           THEN ResetAttempts(attempts,
                                    StoreBlobKey(blob, requestedAt))
                           ELSE attempts
            /\ reply' = [op |-> "DisperseBlob", err |-> err,
                         arg |-> [Data |-> data, origin |-> origin,
                                  originOk |-> originOk],
                         res |-> IF err = ""
                                 THEN [Result |-> Processing,
                                       RequestId |->
                                           KeyString(StoreBlobKey(blob,
                                                         requestedAt))]
                                 ELSE [Result |-> "", RequestId |-> <<>>]]
            /\ UNCHANGED <<configVars, fetch, now, pipeVars, serverVars>>

\* disperser.ParseBlobKey: exactly two "-"-separated parts
ParseBlobKeyOk(requestID) == Len(requestID) = 2

ParseBlobKey(requestID) == BlobKey(requestID[1], requestID[2])

ZeroMetadata ==
    [BlobHash |-> <<>>, MetadataHash |-> <<>>, NumRetries |-> 0,
     BlobStatus |-> Processing, Expiry |-> 0,
     RequestMetadata |->
         [BlobRequestHeader |-> [SecurityParams |-> <<>>],
          BlobSize |-> 0, RequestedAt |-> 0],
     ConfirmationInfo |-> <<>>]

\* blobStore.GetBlobMetadata as the server sees it: an error, the record, or
\* the zero-valued record of the backend's soft miss
LookupMetadata(store, key, primaryOk) ==
    IF ~primaryOk THEN [err |-> TRUE, m |-> <<>>]
    ELSE IF HasMetadata(store, key)
         THEN [err |-> FALSE, m |-> <<GetBlobMetadata(store, key)>>]
         ELSE [err |-> FALSE, m |-> <<ZeroMetadata>>]

Serialize(m) == <<"gob", m>>

DeserializeOk(data) == Len(data) = 2 /\ data[1] = "gob"

Deserialize(data) == data[2]

\* getMetadataFromKv: nil on a query error, on an empty value and on a
\* value that does not deserialize
getMetadataFromKv(kvs, requestID, kvOk) ==
    IF ~kvOk THEN <<>>
    ELSE IF requestID \notin DOMAIN kvs THEN <<>>
    ELSE IF Len(kvs[requestID]) = 0 THEN <<>>
    ELSE IF ~DeserializeOk(kvs[requestID]) THEN <<>>
    ELSE <<Deserialize(kvs[requestID])>>

KvStatus_Strict(entry, latest) ==
    IF entry.ConfirmationInfo[1].ConfirmationBlockNumber < latest
    THEN Finalized
    ELSE entry.BlobStatus

KvStatus(entry, latest) ==
    IF entry.ConfirmationInfo[1].ConfirmationBlockNumber <= latest
    THEN Finalized
    ELSE entry.BlobStatus

LookupFails_AnyMode(lookupErr, mode) == lookupErr

LookupFails(lookupErr, mode) == lookupErr /\ ~mode

IsConfirmed(m) == m.BlobStatus \in {Confirmed, Finalized}

StatusReply(m) ==
    [err |-> "", Status |-> m.BlobStatus,
     Info |-> IF IsConfirmed(m) THEN m.ConfirmationInfo ELSE <<>>]

ErrReply(e) == [err |-> e, Status |-> "", Info |-> <<>>]

GetBlobStatusReply(requestID, store, kvs, mode, latest, primaryOk, kvOk) ==
    IF Len(requestID) = 0 THEN ErrReply("empty")
    ELSE IF ~ParseBlobKeyOk(requestID) THEN ErrReply("parse")
    ELSE LET p == LookupMetadata(store, ParseBlobKey(requestID), primaryOk)
         IN  IF LookupFails(p.err, mode) THEN ErrReply("lookup")
             ELSE IF /\ \/ p.m = <<>>
                        \/ KeyString(GetBlobKey(p.m[1])) # requestID
                     /\ mode
                  THEN LET inKV == getMetadataFromKv(kvs, requestID, kvOk)
                       IN  IF inKV # <<>>
                           THEN StatusReply(
                                    [inKV[1] EXCEPT !.BlobStatus =
                                        KvStatus(inKV[1], latest)])
                           ELSE StatusReply(ZeroMetadata)
                  ELSE IF p.m = <<>> THEN ErrReply("panic")
                  ELSE StatusReply(p.m[1])

UnknownKey == BlobKey(<<1, 1>>, <<1, EmptySha>>)

RequestIDs ==
    {<<>>, <<(<<0>>)>>, KeyString(UnknownKey)}
        \cup {KeyString(GetBlobKey(metadataStore[i])) :
                  i \in 1..Len(metadataStore)}
        \cup DOMAIN kv

GetBlobStatus ==
    \E requestID \in RequestIDs, primaryOk \in BOOLEAN, kvOk \in BOOLEAN :
        LET r == GetBlobStatusReply(requestID, metadataStore, kv,
                     metadataHashAsBlobKey, latestFinalizedBlock, primaryOk,
                     kvOk)
        IN  /\ reply' = [op |-> "GetBlobStatus", err |-> r.err,
                         arg |-> [requestID |-> requestID,
                                  primaryOk |-> primaryOk, kvOk |-> kvOk],
                         res |-> [Status |-> r.Status, Info |-> r.Info]]
            /\ UNCHANGED <<configVars, fetch, now, storeVars, pipeVars, serverVars>>

\* the storage cluster's KV stream receives the entry the batcher publishes
\* for a blob: its metadata with a ConfirmationInfo
KvValues(m) ==
    {<<>>, <<"junk">>,
     Serialize([m EXCEPT !.BlobStatus = Processing,
                         !.ConfirmationInfo =
                             <<NewConfirmationInfo(0, 0, 0)>>])}
        \cup {Serialize([m EXCEPT
                  !.BlobStatus = Confirmed,
                  !.ConfirmationInfo = <<NewConfirmationInfo(0, 0, b)>>]) :
                  b \in 1..MaxBlock}

KvPublish ==
    \E i \in 1..Len(metadataStore) :
        \E val \in KvValues(metadataStore[i]) :
            LET id == KeyString(GetBlobKey(metadataStore[i])) IN
            /\ id \in DOMAIN kv \/ Cardinality(DOMAIN kv) < MaxServerBlobs
            /\ kv' = [x \in (DOMAIN kv) \cup {id} |->
                         IF x = id THEN val ELSE kv[x]]
            /\ reply' = [op |-> "KvPublish", err |-> "", arg |-> id,
                         res |-> <<>>]
            /\ UNCHANGED <<configVars, fetch, now, storeVars, pipeVars,
                           latestFinalizedBlock, bucketStore, procVars>>

\* a confirmer commits a blob of its batch, read while still Processing
ConfirmBlob ==
    \E i \in 1..Len(metadataStore), b \in 1..MaxBlock :
        /\ metadataStore[i].BlobStatus = Processing
        /\ metadataStore' =
               MarkBlobConfirmed(metadataStore, metadataStore[i],
                   NewConfirmationInfo(0, 0, b), ttl, now)
        /\ reply' = [op |-> "ConfirmBlob", err |-> "",
                     arg |-> metadataStore[i], res |-> <<>>]
        /\ UNCHANGED <<configVars, fetch, now, s3, attempts, pipeVars, serverVars>>

\* a 64-bit block number, as its high and low 32-bit halves
Uint64(hi, lo) == [hi |-> hi, lo |-> lo]

\* uint32(header.Number.Uint64()): the low half
Uint32(n) == n.lo

\* the finalized heads the chain answers with: small ones, and one that does
\* not fit 32 bits
HeaderNumbers == {Uint64(0, n) : n \in 0..MaxBlock} \cup {Uint64(1, 1)}

NextLatestFinalizedBlock_Assign(latest, number, chainOk) ==
    IF chainOk THEN Uint32(number) ELSE latest

\* the value UpdateLatestFinalizedBlock leaves in latestFinalizedBlock
NextLatestFinalizedBlock(latest, number, chainOk) ==
    IF chainOk /\ Uint32(number) > latest THEN Uint32(number) ELSE latest

\* the mirror loop: the finalized head the chain returns, or a failed query
UpdateLatestFinalizedBlock ==
    \E number \in HeaderNumbers, chainOk \in BOOLEAN :
        /\ latestFinalizedBlock' =
               NextLatestFinalizedBlock(latestFinalizedBlock, number, chainOk)
        /\ reply' = [op |-> "UpdateLatestFinalizedBlock",
                     err |-> IF chainOk THEN "" ELSE "chain",
                     arg |-> number, res |-> <<>>]
        /\ UNCHANGED <<configVars, fetch, now, storeVars, pipeVars, kv, bucketStore,
                       procVars>>

ServerInit ==
    /\ Start
    /\ metadataHashAsBlobKey \in BOOLEAN
    /\ ttl = 0
    /\ EnableRatelimiter = TRUE
    /\ CountFailed = FALSE

\* the dispersal path: requests, status queries and the removal of blobs
ServerNext ==
    \/ DisperseBlob
    \/ GetBlobStatus
    \/ RemoveBlobCall

ServerSpec == ServerInit /\ [][ServerNext]_vars

\* getBlobContentParallel: the download of one record's object fails when
\* the store call fails or no object is stored under the key
FetchFails(objs, mode, m, downOk) ==
    ~downOk \/ ~HasObject(objs, GetBlobContentKey(mode, m))

GetBlobsByMetadataErr(objs, mode, metadata, downOk) ==
    IF \E i \in 1..Len(metadata) : FetchFails(objs, mode, metadata[i], downOk[i])
    THEN "download" ELSE ""

\* the blobs of the records whose download succeeded, by blob key
FetchedBlobs(objs, mode, metadata, downOk) ==
    [k \in {GetBlobKey(metadata[i]) :
               i \in {j \in 1..Len(metadata) :
                         ~FetchFails(objs, mode, metadata[j], downOk[j])}} |->
        LET m == metadata[CHOOSE i \in 1..Len(metadata) :
                              GetBlobKey(metadata[i]) = k]
        IN  [RequestHeader |-> m.RequestMetadata.BlobRequestHeader,
             Data |-> objs[GetBlobContentKey(mode, m)]]]

GetBlobsByMetadataBlobs_Partial(objs, mode, metadata, downOk) ==
    <<FetchedBlobs(objs, mode, metadata, downOk)>>

\* the map GetBlobsByMetadata returns: <<>> is nil, <<blobs>> is a map
GetBlobsByMetadataBlobs(objs, mode, metadata, downOk) ==
    IF GetBlobsByMetadataErr(objs, mode, metadata, downOk) # "" THEN <<>>
    ELSE <<FetchedBlobs(objs, mode, metadata, downOk)>>

\* GetBlobsByMetadata on stored records, in the order of the store
GetBlobsByMetadata ==
    \E picked \in SUBSET (1..Len(metadataStore)) :
        LET metadata ==
                SelectSeq(metadataStore,
                    LAMBDA m : \E i \in picked : metadataStore[i] = m)
        IN  \E downOk \in [1..Len(metadata) -> BOOLEAN] :
                /\ reply' = [op |-> "GetBlobsByMetadata",
                             err |-> GetBlobsByMetadataErr(s3,
                                         metadataHashAsBlobKey, metadata,
                                         downOk),
                             arg |-> [metadata |-> metadata,
                                      downOk |-> downOk],
                             res |-> GetBlobsByMetadataBlobs(s3,
                                         metadataHashAsBlobKey, metadata,
                                         downOk)]
                /\ UNCHANGED <<configVars, fetch, now, storeVars, pipeVars,
                               serverVars>>

\* the request whose status is followed was accepted and stored
Dispersed ==
    \E data \in {<<0>>} :
        /\ Len(metadataStore) < MaxServerBlobs
        /\ StoreBlob(Blob(data, <<SecurityParam(0, 1, 2)>>), 1, TRUE, TRUE)
        /\ UNCHANGED <<configVars, fetch, now, pipeVars, serverVars>>

\* a blob that was removed, object and metadata
Removed ==
    \E i \in 1..Len(metadataStore) :
        /\ RemoveBlob(metadataStore[i], TRUE, TRUE)
        /\ UNCHANGED <<configVars, fetch, now, pipeVars, serverVars>>

\* the batcher's fetch: blobs are stored and removed, stored records fetched
FetchNext == StoreBlobOk \/ Removed \/ GetBlobsByMetadata

FetchSpec == StoreInit /\ [][FetchNext]_vars

\* the ingest path: blobs arrive through DisperseBlob or at the blob store,
\* with or without a ttl, while the clock runs
Ingested ==
    \E data \in StoreData, requestedAt \in ReqTimes :
        /\ Len(metadataStore) < MaxServerBlobs
        /\ StoreBlob(Blob(data, <<SecurityParam(0, 1, 2)>>), requestedAt,
                     TRUE, TRUE)
        /\ UNCHANGED <<configVars, fetch, now, pipeVars, serverVars>>

IngestNext == DisperseBlob \/ Ingested \/ Tick

IngestSpec == StoreInit /\ [][IngestNext]_vars

\* ------------------------------------ GetBlobsByMetadata, step by step
\* make(chan blobResultOrError, len(metadata))
ChanCap_Unbuffered(n) == 0

ChanCap(n) == n

Running(f) == {i \in 1..f.n : f.task[i] = "running"}

FetchStep(name) ==
    [op |-> name, err |-> fetch'.err, arg |-> fetch'.n, res |-> fetch'.read]

\* the call is made with n metadata entries; downOk[i] is what the download
\* of entry i will return
FetchCall ==
    \E n \in 0..MaxFetch :
        \E downOk \in [1..n -> BOOLEAN] :
            /\ fetch.pc = "idle"
            /\ fetch' = [pc |-> "submit", n |-> n, downOk |-> downOk,
                         task |-> [i \in 1..n |-> "new"],
                         cap |-> ChanCap(n), chan |-> <<>>,
                         closed |-> FALSE, read |-> 0, err |-> ""]
            /\ reply' = FetchStep("FetchCall")
            /\ UNCHANGED <<configVars, now, storeVars, pipeVars, serverVars>>

\* pool.Submit of the next entry: the task is queued, Submit does not wait
PoolSubmit ==
    /\ fetch.pc = "submit"
    /\ \E i \in 1..fetch.n :
           /\ fetch.task[i] = "new"
           /\ \A j \in 1..(i - 1) : fetch.task[j] # "new"
           /\ fetch' = [fetch EXCEPT !.task[i] = "queued"]
    /\ reply' = FetchStep("PoolSubmit")
    /\ UNCHANGED <<configVars, now, storeVars, pipeVars, serverVars>>

\* a worker of the pool takes a queued task; the pool runs at most
\* maxS3BlobFetchWorkers tasks at a time
WorkerStart(i) ==
    /\ fetch.task[i] = "queued"
    /\ Cardinality(Running(fetch)) < maxS3BlobFetchWorkers
    /\ fetch' = [fetch EXCEPT !.task[i] = "running"]
    /\ reply' = FetchStep("WorkerStart")
    /\ UNCHANGED <<configVars, now, storeVars, pipeVars, serverVars>>

\* getBlobContentParallel: the download returned, its result is sent on the
\* channel; the send waits while the channel is full
WorkerSend(i) ==
    /\ fetch.task[i] = "running"
    /\ Len(fetch.chan) < fetch.cap
    /\ fetch' = [fetch EXCEPT !.task[i] = "sent",
                              !.chan = Append(@, fetch.downOk[i])]
    /\ reply' = FetchStep("WorkerSend")
    /\ UNCHANGED <<configVars, now, storeVars, pipeVars, serverVars>>

\* pool.StopWait() returns when every submitted task has finished; the
\* channel is closed next
StopWait ==
    /\ fetch.pc = "submit"
    /\ \A i \in 1..fetch.n : fetch.task[i] = "sent"
    /\ fetch' = [fetch EXCEPT !.pc = "collect", !.closed = TRUE]
    /\ reply' = FetchStep("StopWait")
    /\ UNCHANGED <<configVars, now, storeVars, pipeVars, serverVars>>

\* for result := range resultChan: a result is received, an error result
\* returns at once; the loop ends when the closed channel is empty
Collect ==
    /\ fetch.pc = "collect"
    /\ fetch.chan # <<>> \/ fetch.closed
    /\ fetch' =
           IF fetch.chan = <<>> THEN [fetch EXCEPT !.pc = "done"]
           ELSE IF ~Head(fetch.chan)
                THEN [fetch EXCEPT !.pc = "done", !.err = "download",
                                   !.chan = Tail(@), !.read = @ + 1]
                ELSE [fetch EXCEPT !.chan = Tail(@), !.read = @ + 1]
    /\ reply' = FetchStep("Collect")
    /\ UNCHANGED <<configVars, now, storeVars, pipeVars, serverVars>>

PoolNext ==
    \/ FetchCall
    \/ PoolSubmit
    \/ \E i \in 1..fetch.n : WorkerStart(i)
    \/ \E i \in 1..fetch.n : WorkerSend(i)
    \/ StopWait
    \/ Collect

\* the caller and the workers are goroutines that keep being scheduled, and
\* every download returns
PoolSpec ==
    /\ StoreInit
    /\ [][PoolNext]_vars
    /\ WF_vars(PoolSubmit)
    /\ WF_vars(\E i \in 1..fetch.n : WorkerStart(i))
    /\ WF_vars(\E i \in 1..fetch.n : WorkerSend(i))
    /\ WF_vars(StopWait)
    /\ WF_vars(Collect)

\* the status path: stored blobs are confirmed and published to the KV
\* stream, the finalized head moves, clients ask for the status
StatusNext ==
    \/ Dispersed
    \/ Removed
    \/ ConfirmBlob
    \/ KvPublish
    \/ UpdateLatestFinalizedBlock
    \/ GetBlobStatus

StatusSpec == ServerInit /\ [][StatusNext]_vars

\* C4: DisperseBlob rejects sizes 0 and MaxBlobSize + 1 with a size error
\* before anything is stored, and sizes 1..MaxBlobSize pass the size check;
\* a request is accepted only if 1 <= len(data) <= MaxBlobSize.
C4_Step ==
    reply'.op = "DisperseBlob" =>
        LET n == Len(reply'.arg.Data) IN
        /\ (n = 0 \/ n > MaxBlobSize) =>
               /\ reply'.err = "size"
               /\ s3' = s3
               /\ metadataStore' = metadataStore
        /\ (1 <= n /\ n <= MaxBlobSize) => reply'.err # "size"
        /\ reply'.err = "" =>
               /\ 1 <= n /\ n <= MaxBlobSize
               /\ HasMetadata(metadataStore',
                              ParseBlobKey(reply'.res.RequestId))

C4_SizeCheck == [][C4_Step]_vars

C4_Witness ==
    /\ reply.op = "DisperseBlob"
    /\ Len(reply.arg.Data) = MaxBlobSize + 1
    /\ reply.err = "size"
    /\ \E i \in 1..Len(metadataStore) :
           metadataStore[i].RequestMetadata.BlobSize = MaxBlobSize

\* C5: with rate limiting enabled, a DisperseBlob request that passes the
\* size check and that the rate limiter rejects is answered with a
\* RateLimited error and stores nothing.
C5_Step ==
    ( /\ reply'.op = "DisperseBlob"
      /\ EnableRatelimiter
      /\ Len(reply'.arg.Data) \in 1..MaxBlobSize
      /\ reply'.arg.originOk
      /\ ~AllowRequestAllowed(bucketStore, reply'.arg.origin,
                              Len(reply'.arg.Data), DisperseRate, TRUE, now) )
        => /\ reply'.err = "ratelimited"
           /\ s3' = s3
           /\ metadataStore' = metadataStore

C5_RateLimited == [][C5_Step]_vars

\* C9: in MetadataHashAsBlobKey mode, when the primary store returns nothing
\* for the request and the KV stream holds an entry for it, the reply is
\* built from the entry: Finalized if its ConfirmationBlockNumber <=
\* latestFinalizedBlock, else the status recorded in the entry; an entry
\* recorded as Confirmed is reported Confirmed or Finalized.
C9_KvFallback ==
    ( /\ reply.op = "GetBlobStatus"
      /\ metadataHashAsBlobKey
      /\ ParseBlobKeyOk(reply.arg.requestID)
      /\ \/ ~reply.arg.primaryOk
         \/ ~HasMetadata(metadataStore, ParseBlobKey(reply.arg.requestID))
      /\ reply.arg.kvOk
      /\ reply.arg.requestID \in DOMAIN kv
      /\ DeserializeOk(kv[reply.arg.requestID]) )
        => LET e == Deserialize(kv[reply.arg.requestID])
               st == IF e.ConfirmationInfo[1].ConfirmationBlockNumber
                            <= latestFinalizedBlock
                     THEN Finalized ELSE e.BlobStatus
           IN  /\ reply.err = ""
               /\ reply.res.Status = st
               /\ st \in {Confirmed, Finalized} =>
                      reply.res.Info = e.ConfirmationInfo
               /\ e.BlobStatus = Confirmed =>
                      reply.res.Status \in {Confirmed, Finalized}

C9_Witness ==
    /\ reply.op = "GetBlobStatus"
    /\ reply.err = ""
    /\ metadataHashAsBlobKey
    /\ metadataStore = <<>>
    /\ reply.arg.kvOk
    /\ reply.arg.requestID \in DOMAIN kv
    /\ DeserializeOk(kv[reply.arg.requestID])
    /\ Deserialize(kv[reply.arg.requestID]).BlobStatus = Confirmed
    /\ Deserialize(kv[reply.arg.requestID])
           .ConfirmationInfo[1].ConfirmationBlockNumber
               = latestFinalizedBlock
    /\ reply.res.Status = Finalized

\* C10: in MetadataHashAsBlobKey mode a well-formed request id that neither
\* the primary store nor the KV stream knows (also when the KV query fails)
\* gets status Processing, an empty BlobInfo and no error; outside that mode
\* a primary lookup error is returned; an empty or unparsable request id is
\* always an error.
C10_KnownNowhere ==
    /\ \/ ~reply.arg.primaryOk
       \/ ~HasMetadata(metadataStore, ParseBlobKey(reply.arg.requestID))
    /\ \/ ~reply.arg.kvOk
       \/ reply.arg.requestID \notin DOMAIN kv
       \/ ~DeserializeOk(kv[reply.arg.requestID])

C10_SoftMiss ==
    reply.op = "GetBlobStatus" =>
        /\ ( /\ metadataHashAsBlobKey
             /\ ParseBlobKeyOk(reply.arg.requestID)
             /\ C10_KnownNowhere )
               => /\ reply.err = ""
                  /\ reply.res.Status = Processing
                  /\ reply.res.Info = <<>>
        /\ ( /\ ~metadataHashAsBlobKey
             /\ ParseBlobKeyOk(reply.arg.requestID)
             /\ ~reply.arg.primaryOk )
               => reply.err = "lookup"
        /\ ~ParseBlobKeyOk(reply.arg.requestID) =>
               reply.err \in {"empty", "parse"}

C10_Witness ==
    /\ reply.op = "GetBlobStatus"
    /\ metadataHashAsBlobKey
    /\ ParseBlobKeyOk(reply.arg.requestID)
    /\ ~reply.arg.primaryOk
    /\ ~reply.arg.kvOk
    /\ reply.arg.requestID \in DOMAIN kv
    /\ reply.err = ""
    /\ reply.res.Status = Processing

\* C11: latestFinalizedBlock never decreases, whatever finalized head the
\* chain returns, and an UpdateLatestFinalizedBlock call whose chain query
\* fails leaves it unchanged.
C11_Step ==
    /\ latestFinalizedBlock' >= latestFinalizedBlock
    /\ (reply'.op = "UpdateLatestFinalizedBlock" /\ reply'.err = "chain")
           => latestFinalizedBlock' = latestFinalizedBlock

C11_Monotonic == [][C11_Step]_vars

C11_Witness ==
    /\ reply.op = "UpdateLatestFinalizedBlock"
    /\ reply.err = ""
    /\ Uint32(reply.arg) < latestFinalizedBlock
    /\ latestFinalizedBlock = MaxBlock

\* ------------------------------------- the lock around latestFinalizedBlock
\* sync.RWMutex: Lock waits for the writer and every reader to leave, RLock
\* waits for the writer to leave
CanLock(m) == ~m.writer /\ m.readers = 0

CanRLock(m) == ~m.writer

\* where UpdateLatestFinalizedBlock goes after the chain query; the deferred
\* Unlock runs on the error return as well
AfterQuery_EarlyReturn(chainOk) == IF chainOk THEN "compare" ELSE "idle"

AfterQuery(chainOk) == IF chainOk THEN "compare" ELSE "unlock"

ProcReply(op, arg) == [op |-> op, err |-> "", arg |-> arg, res |-> <<>>]

MirrorLock ==
    /\ mirror.pc = "idle"
    /\ CanLock(mu)
    /\ mu' = [mu EXCEPT !.writer = TRUE]
    /\ mirror' = [mirror EXCEPT !.pc = "query"]
    /\ reply' = ProcReply("MirrorLock", <<>>)
    /\ UNCHANGED <<configVars, fetch, now, storeVars, pipeVars, kv,
                   latestFinalizedBlock, bucketStore, statusCalls,
                   limiterCalls>>

MirrorQuery ==
    \E number \in HeaderNumbers, chainOk \in BOOLEAN :
        /\ mirror.pc = "query"
        /\ mirror' = [pc |-> AfterQuery(chainOk),
                      number |-> IF chainOk THEN Uint32(number) ELSE 0]
        /\ reply' = [op |-> "MirrorQuery",
                     err |-> IF chainOk THEN "" ELSE "chain",
                     arg |-> number, res |-> <<>>]
        /\ UNCHANGED <<configVars, fetch, now, storeVars, pipeVars, kv,
                       latestFinalizedBlock, bucketStore, mu, statusCalls,
                       limiterCalls>>

MirrorCompare ==
    /\ mirror.pc = "compare"
    /\ latestFinalizedBlock' =
           NextLatestFinalizedBlock(latestFinalizedBlock,
                                    Uint64(0, mirror.number), TRUE)
    /\ mirror' = [pc |-> "unlock", number |-> 0]
    /\ reply' = ProcReply("MirrorCompare", mirror.number)
    /\ UNCHANGED <<configVars, fetch, now, storeVars, pipeVars, kv, bucketStore, mu,
                   statusCalls, limiterCalls>>

MirrorUnlock ==
    /\ mirror.pc = "unlock"
    /\ mu' = [mu EXCEPT !.writer = FALSE]
    /\ mirror' = [mirror EXCEPT !.pc = "idle"]
    /\ reply' = ProcReply("UpdateLatestFinalizedBlock", <<>>)
    /\ UNCHANGED <<configVars, fetch, now, storeVars, pipeVars, kv,
                   latestFinalizedBlock, bucketStore, statusCalls,
                   limiterCalls>>

\* the KV entry a GetBlobStatus call holds when it reaches s.mu.RLock():
\* the primary store gave nothing for the request and the KV stream has it
FallbackEntry(requestID, store, kvs, mode, primaryOk, kvOk) ==
    IF Len(requestID) = 0 \/ ~ParseBlobKeyOk(requestID) THEN <<>>
    ELSE LET p == LookupMetadata(store, ParseBlobKey(requestID), primaryOk)
         IN  IF LookupFails(p.err, mode) THEN <<>>
             ELSE IF /\ \/ p.m = <<>>
                        \/ KeyString(GetBlobKey(p.m[1])) # requestID
                     /\ mode
                  THEN getMetadataFromKv(kvs, requestID, kvOk)
                  ELSE <<>>

\* a GetBlobStatus call up to s.mu.RLock(), or to its return when it does
\* not take the fallback path
StatusEnter(c) ==
    \E requestID \in RequestIDs, primaryOk \in BOOLEAN, kvOk \in BOOLEAN :
        LET e == FallbackEntry(requestID, metadataStore, kv,
                     metadataHashAsBlobKey, primaryOk, kvOk)
            r == GetBlobStatusReply(requestID, metadataStore, kv,
                     metadataHashAsBlobKey, latestFinalizedBlock, primaryOk,
                     kvOk)
        IN  /\ statusCalls[c] = <<>>
            /\ statusCalls' =
                   IF e = <<>> THEN statusCalls
                   ELSE [statusCalls EXCEPT ![c] =
                            <<[pc |-> "rlock", requestID |-> requestID,
                               primaryOk |-> primaryOk,
                               metadata |-> e[1]]>>]
            /\ reply' =
                   IF e = <<>>
                   THEN [op |-> "GetBlobStatus", err |-> r.err,
                         arg |-> [requestID |-> requestID,
                                  primaryOk |-> primaryOk, kvOk |-> kvOk],
                         res |-> [Status |-> r.Status, Info |-> r.Info]]
                   ELSE ProcReply("StatusEnter", c)
            /\ UNCHANGED <<configVars, fetch, now, storeVars, pipeVars, kv,
                           latestFinalizedBlock, bucketStore, mu, mirror,
                           limiterCalls>>

StatusRLock(c) ==
    /\ statusCalls[c] # <<>>
    /\ statusCalls[c][1].pc = "rlock"
    /\ CanRLock(mu)
    /\ mu' = [mu EXCEPT !.readers = @ + 1]
    /\ statusCalls' = [statusCalls EXCEPT ![c][1].pc = "read"]
    /\ reply' = ProcReply("StatusRLock", c)
    /\ UNCHANGED <<configVars, fetch, now, storeVars, pipeVars, kv,
                   latestFinalizedBlock, bucketStore, mirror, limiterCalls>>

\* the comparison with s.latestFinalizedBlock
StatusRead(c) ==
    /\ statusCalls[c] # <<>>
    /\ statusCalls[c][1].pc = "read"
    /\ statusCalls' =
           [statusCalls EXCEPT
               ![c][1].pc = "return",
               ![c][1].metadata.BlobStatus =
                   KvStatus(statusCalls[c][1].metadata,
                            latestFinalizedBlock)]
    /\ reply' = ProcReply("StatusRead", c)
    /\ UNCHANGED <<configVars, fetch, now, storeVars, pipeVars, kv,
                   latestFinalizedBlock, bucketStore, mu, mirror,
                   limiterCalls>>

\* the reply is built and the deferred RUnlock runs
StatusReturn(c) ==
    /\ statusCalls[c] # <<>>
    /\ statusCalls[c][1].pc = "return"
    /\ mu' = [mu EXCEPT !.readers = @ - 1]
    /\ statusCalls' = [statusCalls EXCEPT ![c] = <<>>]
    /\ reply' = LET r == StatusReply(statusCalls[c][1].metadata)
                IN  [op |-> "GetBlobStatus", err |-> r.err,
                     arg |-> [requestID |-> statusCalls[c][1].requestID,
                              primaryOk |-> statusCalls[c][1].primaryOk,
                              kvOk |-> TRUE],
                     res |-> [Status |-> r.Status, Info |-> r.Info]]
    /\ UNCHANGED <<configVars, fetch, now, storeVars, pipeVars, kv,
                   latestFinalizedBlock, bucketStore, mirror, limiterCalls>>

\* the entries the KV stream holds for the followed request: left there by
\* the batcher for a blob that has been removed from the primary store
FollowedMetadata ==
    NewMetadata(Blob(<<0>>, <<SecurityParam(0, 1, 2)>>), 1, 0, 1)

LockInit ==
    /\ StartServices
    /\ \E val \in KvValues(FollowedMetadata) \ {<<>>, <<"junk">>} :
           kv = [id \in {KeyString(GetBlobKey(FollowedMetadata))} |-> val]
    /\ metadataHashAsBlobKey = TRUE
    /\ ttl = 0
    /\ EnableRatelimiter = TRUE
    /\ CountFailed = FALSE

LockNext ==
    \/ MirrorLock
    \/ MirrorQuery
    \/ MirrorCompare
    \/ MirrorUnlock
    \/ \E c \in 1..MaxClients : StatusEnter(c)
    \/ \E c \in 1..MaxClients : StatusRLock(c)
    \/ \E c \in 1..MaxClients : StatusRead(c)
    \/ \E c \in 1..MaxClients : StatusReturn(c)

\* the mirror loop of Start and concurrent GetBlobStatus calls
LockSpec == LockInit /\ [][LockNext]_vars

\* the GetBlobStatus calls between RLock and the deferred RUnlock
C12_ReadLockHolders ==
    {c \in 1..MaxClients :
        statusCalls[c] # <<>> /\ statusCalls[c][1].pc \in {"read", "return"}}

\* C12: latestFinalizedBlock is written only while the mirror loop holds the
\* write lock and no GetBlobStatus call holds the read lock; a GetBlobStatus
\* call compares with it only while it holds the read lock and no writer
\* holds the lock; both operations have released the lock when they return.
C12_WriteStep ==
    latestFinalizedBlock' # latestFinalizedBlock =>
        /\ mu.writer
        /\ mu.readers = 0
        /\ C12_ReadLockHolders = {}

C12_Held ==
    /\ mirror.pc \in {"query", "compare", "unlock"} =>
           mu.writer /\ mu.readers = 0 /\ C12_ReadLockHolders = {}
    /\ C12_ReadLockHolders # {} => ~mu.writer
    /\ mu.readers = Cardinality(C12_ReadLockHolders)
    /\ mirror.pc = "idle" => ~mu.writer

C12_Guarded == [][C12_WriteStep]_vars /\ []C12_Held

C12_Witness ==
    /\ reply.op = "MirrorCompare"
    /\ latestFinalizedBlock = MaxBlock
    /\ \E c \in 1..MaxClients :
           /\ statusCalls[c] # <<>>
           /\ statusCalls[c][1].pc = "rlock"
    /\ \E c \in 1..MaxClients : statusCalls[c] = <<>>

\* C13: for every blob stored by a successful StoreBlob, GetBlobContent on
\* its metadata returns exactly the bytes stored for that request (the bytes
\* whose digest is its BlobHash), in both key modes, after any further
\* StoreBlob calls.
C13_RoundTrip ==
    \A i \in 1..Len(metadataStore) :
        LET m == metadataStore[i]
            k == GetBlobContentKey(metadataHashAsBlobKey, m)
        IN  /\ HasObject(s3, k)
            /\ getBlobHash([Data |-> s3[k]]) = m.BlobHash

\* C14: two ingestion triples (requestedAt, securityParams, data) that
\* differ in a component get different BlobKey strings from StoreBlob: the key
\* a successful StoreBlob returns is the key of no stored request with
\* another triple.
C14_Step ==
    (reply'.op = "StoreBlob" /\ reply'.err = "") =>
        \A i \in 1..Len(metadataStore) :
            LET m == metadataStore[i]
                new == GetBlobMetadata(metadataStore', reply'.res)
            IN  ( \/ m.RequestMetadata.RequestedAt
                         # new.RequestMetadata.RequestedAt
                  \/ m.RequestMetadata.BlobRequestHeader.SecurityParams
                         # reply'.arg.RequestHeader.SecurityParams
                  \/ m.BlobHash # getBlobHash(reply'.arg) )
                    => KeyString(GetBlobKey(m)) # KeyString(reply'.res)

C14_KeyInjective == [][C14_Step]_vars

\* C15: for a requester ID that contains an allowlist entry as a substring,
\* AllowRequest returns allowed with no error for every blob size and rate,
\* whatever GetItem and UpdateItem would answer, and leaves the bucket store
\* as it was.
C15_Step ==
    ( /\ reply'.op = "AllowRequest"
      /\ \E i \in 1..Len(Allowlist) :
             Contains(reply'.arg.requesterID, Allowlist[i]) )
        => /\ reply'.res = TRUE
           /\ reply'.err = ""
           /\ bucketStore' = bucketStore

C15_Allowlist == [][C15_Step]_vars

C15_Witness ==
    /\ reply.op = "AllowRequest"
    /\ reply.arg.requesterID = <<1, 2>>
    /\ reply.arg.blobSize = MaxBlobSize
    /\ ~reply.arg.getOk
    /\ ~reply.arg.updOk
    /\ reply.res = TRUE
    /\ <<1>> \in DOMAIN bucketStore
    /\ <<1, 2>> \notin DOMAIN bucketStore

\* the level of tier i before a request: the stored one, or BucketSizes[i]
\* for a requester GetItem has nothing for
C16_LevelBefore(i) ==
    IF reply'.arg.getOk /\ reply'.arg.requesterID \in DOMAIN bucketStore
    THEN bucketStore[reply'.arg.requesterID].BucketLevels[i]
    ELSE BucketSizes[i]

C16_Interval ==
    IF reply'.arg.getOk /\ reply'.arg.requesterID \in DOMAIN bucketStore
    THEN now - bucketStore[reply'.arg.requesterID].LastRequestTime
    ELSE 0

\* 1e6 * blobSize / rate / Multipliers[i] microseconds, rounded down
C16_Deduction(i) ==
    (1000000 * reply'.arg.blobSize)
        \div (reply'.arg.rate * Multipliers[i])

C16_Raw(i) == C16_LevelBefore(i) + C16_Interval - C16_Deduction(i)

C16_NewLevel(i) ==
    IF C16_Raw(i) < 0 THEN 0
    ELSE IF C16_Raw(i) > BucketSizes[i] THEN BucketSizes[i]
    ELSE C16_Raw(i)

\* C16: for a non-allowlisted requester AllowRequest allows the request if
\* and only if clamp(level_i + interval - deduction_i, 0, BucketSizes[i]) > 0
\* for every tier i, with interval = now - LastRequestTime; a rejection
\* implies a tier whose new level is 0.
C16_Step ==
    ( /\ reply'.op = "AllowRequest"
      /\ ~\E i \in 1..Len(Allowlist) :
              Contains(reply'.arg.requesterID, Allowlist[i]) )
        => /\ reply'.res = (\A i \in 1..Len(BucketSizes) : C16_NewLevel(i) > 0)
           /\ ~reply'.res =>
                  \E i \in 1..Len(BucketSizes) : C16_NewLevel(i) = 0

C16_Admission == [][C16_Step]_vars

C16_Witness ==
    /\ reply.op = "AllowRequest"
    /\ reply.arg.requesterID = <<1>>
    /\ reply.arg.getOk
    /\ reply.res = FALSE
    /\ now > 1
    /\ <<1>> \in DOMAIN bucketStore
    /\ bucketStore[<<1>>].LastRequestTime < now

\* an accepted request of a non-allowlisted requester whose UpdateItem
\* succeeded
C17_Accepted ==
    /\ reply'.op = "AllowRequest"
    /\ ~\E i \in 1..Len(Allowlist) :
            Contains(reply'.arg.requesterID, Allowlist[i])
    /\ reply'.res = TRUE
    /\ reply'.err = ""

\* C17 as stated: for any accepted request, every tier's persisted level is
\* strictly lower than the level before the request, by the deduction
\* computed for that request.
C17_StrictStep ==
    C17_Accepted =>
        \A i \in 1..Len(BucketSizes) :
            LET new == bucketStore'[reply'.arg.requesterID].BucketLevels[i]
            IN  /\ new < C16_LevelBefore(i)
                /\ new = C16_LevelBefore(i) - C16_Deduction(i)

C17_RefillStep ==
    C17_Accepted =>
        \A i \in 1..Len(BucketSizes) :
            LET new == bucketStore'[reply'.arg.requesterID].BucketLevels[i]
                raw == C16_LevelBefore(i) + C16_Interval - C16_Deduction(i)
            IN  /\ new = IF raw > BucketSizes[i] THEN BucketSizes[i] ELSE raw
                /\ new > 0
                /\ C16_Deduction(i) > C16_Interval =>
                       new < C16_LevelBefore(i)

C18_Step ==
    ( /\ reply'.op = "AllowRequest"
      /\ ~\E i \in 1..Len(Allowlist) :
              Contains(reply'.arg.requesterID, Allowlist[i]) )
        => LET id == reply'.arg.requesterID IN
           IF reply'.res \/ CountFailed
           THEN IF reply'.arg.updOk
                THEN /\ reply'.err = ""
                     /\ id \in DOMAIN bucketStore'
                     /\ bucketStore'[id].LastRequestTime = now
                     /\ \A i \in 1..Len(BucketSizes) :
                            bucketStore'[id].BucketLevels[i] = C16_NewLevel(i)
                     /\ \A r \in DOMAIN bucketStore \ {id} :
                            bucketStore'[r] = bucketStore[r]
                ELSE reply'.err = "update" /\ bucketStore' = bucketStore
           ELSE reply'.err = "" /\ bucketStore' = bucketStore

C18_Persistence == [][C18_Step]_vars

C18_Witness ==
    /\ reply.op = "AllowRequest"
    /\ reply.arg.requesterID = <<1>>
    /\ reply.res = FALSE
    /\ ~CountFailed
    /\ ~reply.arg.updOk
    /\ reply.err = ""
    /\ <<1>> \in DOMAIN bucketStore
    /\ bucketStore[<<1>>].LastRequestTime < now

\* ------------------------------- concurrent AllowRequest calls, unlocked
\* what GetItem returned to a call, as a store of that one item
HeldItem(call) ==
    IF call.item = <<>> THEN <<>>
    ELSE [r \in {call.requesterID} |-> call.item[1]]

UpdateItem(store, requesterID, params) ==
    [r \in (DOMAIN store) \cup {requesterID} |->
        IF r = requesterID THEN params ELSE store[r]]

\* AllowRequest up to the return of GetItem; an allowlisted requester is
\* answered at once
LimiterGet(c) ==
    \E requesterID \in Requesters, blobSize \in {1, MaxBlobSize},
       getOk \in BOOLEAN :
        /\ limiterCalls[c] = <<>>
        /\ limiterCalls' =
               IF Allowlisted(requesterID) THEN limiterCalls
               ELSE [limiterCalls EXCEPT ![c] =
                        <<[requesterID |-> requesterID,
                           blobSize |-> blobSize,
                           item |-> IF getOk
                                       /\ requesterID \in DOMAIN bucketStore
                                    THEN <<bucketStore[requesterID]>>
                                    ELSE <<>>]>>]
        /\ reply' = [op |-> IF Allowlisted(requesterID)
                            THEN "AllowRequest" ELSE "LimiterGet",
                     err |-> "", arg |-> requesterID, res |-> TRUE]
        /\ UNCHANGED <<configVars, fetch, now, storeVars, pipeVars, kv,
                       latestFinalizedBlock, bucketStore, mu, mirror,
                       statusCalls>>

\* the rest of the call: the levels are computed from the item the call
\* holds and written back with UpdateItem
LimiterUpdate(c) ==
    \E updOk \in BOOLEAN :
        /\ limiterCalls[c] # <<>>
        /\ LET call == limiterCalls[c][1]
               new == NewBucketParams(HeldItem(call), call.requesterID,
                          call.blobSize, DisperseRate, TRUE, now)
               allowed == \A i \in 1..Len(BucketSizes) :
                              new.BucketLevels[i] > 0
               written == (allowed \/ CountFailed) /\ updOk
           IN  /\ bucketStore' =
                      IF written
                      THEN UpdateItem(bucketStore, call.requesterID, new)
                      ELSE bucketStore
               /\ reply' = [op |-> "AllowRequest",
                            err |-> IF (allowed \/ CountFailed) /\ ~updOk
                                    THEN "update" ELSE "",
                            arg |-> call.requesterID, res |-> allowed]
        /\ limiterCalls' = [limiterCalls EXCEPT ![c] = <<>>]
        /\ UNCHANGED <<configVars, fetch, now, storeVars, pipeVars, kv,
                       latestFinalizedBlock, mu, mirror, statusCalls>>

RaceNext ==
    \/ \E c \in 1..MaxCallers : LimiterGet(c)
    \/ \E c \in 1..MaxCallers : LimiterUpdate(c)
    \/ Tick

RaceSpec == LimiterInit /\ [][RaceNext]_vars

\* C19: every persisted level of tier i is within 0..BucketSizes[i], under
\* any interleaving of the GetItem and UpdateItem of concurrent AllowRequest
\* calls for the same requester.
C19_LevelsInRange ==
    \A r \in DOMAIN bucketStore :
        /\ Len(bucketStore[r].BucketLevels) = Len(BucketSizes)
        /\ \A i \in 1..Len(BucketSizes) :
               /\ 0 <= bucketStore[r].BucketLevels[i]
               /\ bucketStore[r].BucketLevels[i] <= BucketSizes[i]

\* a call writes levels computed from an item another call has replaced
C19_Witness ==
    /\ reply.op = "AllowRequest"
    /\ reply.res = TRUE
    /\ \E c \in 1..MaxCallers :
           /\ limiterCalls[c] # <<>>
           /\ limiterCalls[c][1].item # <<>>
           /\ limiterCalls[c][1].requesterID \in DOMAIN bucketStore
           /\ limiterCalls[c][1].item[1].BucketLevels
                  = bucketStore[limiterCalls[c][1].requesterID].BucketLevels
           /\ limiterCalls[c][1].item[1].LastRequestTime < now
           /\ bucketStore[limiterCalls[c][1].requesterID].LastRequestTime
                  = now

\* -------------------------------------------------- core: header hashes
\* keccak256, collision-free: the digest stands for the bytes hashed
Keccak256(bytes) == [keccak256 |-> bytes]

\* an unsigned integer as a big-endian word of len bytes (a byte is one of
\* ByteVals)
RECURSIVE BigEndian(_, _)
BigEndian(n, len) ==
    IF len = 0 THEN <<>>
    ELSE BigEndian(n \div Cardinality(ByteVals), len - 1)
             \o <<n % Cardinality(ByteVals)>>

\* abi Pack of the static tuple (bytes32 blobHeadersRoot,
\* uint32 referenceBlockNumber): one word each
AbiPack(blobHeadersRoot, referenceBlockNumber) ==
    blobHeadersRoot \o BigEndian(referenceBlockNumber, WordBytes)

BatchHeader(batchRoot, referenceBlockNumber) ==
    [BatchRoot |-> batchRoot, ReferenceBlockNumber |-> referenceBlockNumber]

BatchHeaders ==
    {BatchHeader(r, n) : r \in [1..WordBytes -> ByteVals], n \in 0..MaxBlock}

BatchHeaderEncode_WithReference(h) == AbiPack(h.BatchRoot, h.ReferenceBlockNumber)

\* BatchHeader.Encode: the reduced header, ReferenceBlockNumber set to 0
BatchHeaderEncode(h) == AbiPack(h.BatchRoot, 0)

GetBatchHeaderHash(h) == Keccak256(BatchHeaderEncode(h))

\* the hashes of two batch headers
HashBatchHeaders ==
    \E h1 \in BatchHeaders, h2 \in BatchHeaders :
        /\ reply' = [op |-> "GetBatchHeaderHash", err |-> "",
                     arg |-> <<h1, h2>>,
                     res |-> <<GetBatchHeaderHash(h1),
                               GetBatchHeaderHash(h2)>>]
        /\ UNCHANGED <<configVars, fetch, now, storeVars, pipeVars, serverVars>>

\* a byte slice: <<>> is nil, <<b>> is the non-nil slice of the bytes b
NilBytes == <<>>

Bytes(b) == <<b>>

BlobHeader(commitmentRoot) == [CommitmentRoot |-> commitmentRoot]

BlobHeaders ==
    {BlobHeader(NilBytes)}
        \cup {BlobHeader(Bytes(b)) :
                  b \in UNION {[1..n -> ByteVals] : n \in 0..WordBytes}}

\* gob: a field holding the zero value of its type is not transmitted,
\* arrays excepted; a byte slice of length 0, nil or not, is such a value
GobSent(obj) ==
    {f \in DOMAIN obj :
        \/ f = "BatchRoot"
        \/ f = "ReferenceBlockNumber" /\ obj[f] # 0
        \/ f = "CommitmentRoot" /\ obj[f] # NilBytes /\ obj[f] # Bytes(<<>>)}

\* Encode: the transmitted fields and their values
GobEncode(obj) == [f \in GobSent(obj) |-> obj[f]]

\* Decode into obj: a transmitted field is stored, any other field of obj
\* keeps what it held
GobDecode(data, obj) ==
    [f \in DOMAIN obj |-> IF f \in DOMAIN data THEN data[f] ELSE obj[f]]

\* the headers a call is made on: a fresh one and one that holds values
BatchReceivers ==
    {BatchHeader([i \in 1..WordBytes |-> 0], n) : n \in {0, MaxBlock}}

BlobReceivers == {BlobHeader(NilBytes), BlobHeader(Bytes(<<1>>))}

\* h.Deserialize(x.Serialize()) for batch headers x and h
RoundTripBatchHeader ==
    \E x \in BatchHeaders, h \in BatchReceivers :
        /\ reply' = [op |-> "Deserialize", err |-> "",
                     arg |-> [x |-> x, receiver |-> h,
                              fresh |-> h = BatchHeader(
                                            [i \in 1..WordBytes |-> 0], 0)],
                     res |-> GobDecode(GobEncode(x), h)]
        /\ UNCHANGED <<configVars, fetch, now, storeVars, pipeVars, serverVars>>

\* h.Deserialize(x.Serialize()) for blob headers x and h
RoundTripBlobHeader ==
    \E x \in BlobHeaders, h \in BlobReceivers :
        /\ reply' = [op |-> "Deserialize", err |-> "",
                     arg |-> [x |-> x, receiver |-> h,
                              fresh |-> h = BlobHeader(NilBytes)],
                     res |-> GobDecode(GobEncode(x), h)]
        /\ UNCHANGED <<configVars, fetch, now, storeVars, pipeVars, serverVars>>

\* legacy keccak-256 with the digest kept as bytes: the hashed bytes between
\* two marks no byte equals, so that digests concatenate without collisions
LegacyKeccak256(bytes) == <<-3>> \o bytes \o <<-4>>

BlobHeaderEncodeErr_Lenient(h) == ""

BlobHeaderEncodeErr(h) ==
    IF h.CommitmentRoot = NilBytes THEN "invalid commitment" ELSE ""

BlobHeaderEncode(h) ==
    IF h.CommitmentRoot = NilBytes THEN <<>> ELSE h.CommitmentRoot[1]

GetBlobHeaderHashErr(h) == BlobHeaderEncodeErr(h)

GetBlobHeaderHash(h) ==
    IF GetBlobHeaderHashErr(h) # "" THEN <<>>
    ELSE LegacyKeccak256(BlobHeaderEncode(h))

\* the Merkle tree: balanced binary, the last node of a level of odd length
\* is duplicated, a node is keccak-256 of its two children
PadLevel(nodes) ==
    IF Len(nodes) % 2 = 1 THEN Append(nodes, nodes[Len(nodes)]) ELSE nodes

NextLevel(nodes) ==
    [k \in 1..(Len(PadLevel(nodes)) \div 2) |->
        LegacyKeccak256(PadLevel(nodes)[2 * k - 1] \o PadLevel(nodes)[2 * k])]

RECURSIVE TreeRoot(_)
TreeRoot(nodes) ==
    IF Len(nodes) = 1 THEN nodes[1] ELSE TreeRoot(NextLevel(nodes))

Leaves(data) == [i \in 1..Len(data) |-> LegacyKeccak256(data[i])]

NewTreeErr(data) ==
    IF data = <<>> THEN "tree must have at least 1 piece of data" ELSE ""

Root(data) == TreeRoot(Leaves(data))

RECURSIVE Path(_, _)
Path(nodes, index) ==
    IF Len(nodes) = 1 THEN <<>>
    ELSE <<IF index % 2 = 0 THEN PadLevel(nodes)[index + 2]
                            ELSE PadLevel(nodes)[index]>>
             \o Path(NextLevel(nodes), index \div 2)

\* the proof of the leaf at the (zero-based) index
GenerateProof(data, index) ==
    [Hashes |-> Path(Leaves(data), index), Index |-> index]

RECURSIVE Climb(_, _, _)
Climb(hash, hashes, index) ==
    IF hashes = <<>> THEN hash
    ELSE Climb(IF index % 2 = 0 THEN LegacyKeccak256(hash \o Head(hashes))
                                ELSE LegacyKeccak256(Head(hashes) \o hash),
               Tail(hashes), index \div 2)

VerifyProof(data, proof, root) ==
    Climb(LegacyKeccak256(data), proof.Hashes, proof.Index) = root

CommitmentRoots ==
    {NilBytes} \cup {Bytes(b) : b \in UNION {[1..n -> ByteVals] : n \in 0..1}}

HeaderLists ==
    UNION {[1..n -> {BlobHeader(r) : r \in CommitmentRoots}] :
              n \in 0..MaxHeaders}

SetBatchRootLeafs_Reversed(blobHeaders) ==
    [i \in 1..Len(blobHeaders) |->
        GetBlobHeaderHash(blobHeaders[Len(blobHeaders) + 1 - i])]

SetBatchRootLeafs(blobHeaders) ==
    [i \in 1..Len(blobHeaders) |-> GetBlobHeaderHash(blobHeaders[i])]

SetBatchRootErr(blobHeaders) ==
    IF \E i \in 1..Len(blobHeaders) :
           GetBlobHeaderHashErr(blobHeaders[i]) # ""
    THEN "failed to compute blob header hash: invalid commitment"
    ELSE NewTreeErr(SetBatchRootLeafs(blobHeaders))

SetBatchRootHeader(h, blobHeaders) ==
    IF SetBatchRootErr(blobHeaders) # "" THEN h
    ELSE [h EXCEPT !.BatchRoot = Root(SetBatchRootLeafs(blobHeaders))]

\* h.SetBatchRoot(blobHeaders): the header afterwards and the data of the tree
SetBatchRoot ==
    \E h \in BatchReceivers, blobHeaders \in HeaderLists :
        /\ reply' = [op |-> "SetBatchRoot",
                     err |-> SetBatchRootErr(blobHeaders),
                     arg |-> [h |-> h, blobHeaders |-> blobHeaders],
                     res |-> [h |-> SetBatchRootHeader(h, blobHeaders),
                              tree |->
                                  IF SetBatchRootErr(blobHeaders) # ""
                                  THEN <<>>
                                  ELSE SetBatchRootLeafs(blobHeaders)]]
        /\ UNCHANGED <<configVars, fetch, now, storeVars, pipeVars, serverVars>>

\* h.Encode() and h.GetBlobHeaderHash() of one blob header
HashBlobHeader ==
    \E h \in BlobHeaders :
        /\ reply' = [op |-> "GetBlobHeaderHash",
                     err |-> GetBlobHeaderHashErr(h),
                     arg |-> h,
                     res |-> [encodeErr |-> BlobHeaderEncodeErr(h),
                              encoded |-> BlobHeaderEncode(h),
                              hash |-> GetBlobHeaderHash(h)]]
        /\ UNCHANGED <<configVars, fetch, now, storeVars, pipeVars, serverVars>>

CodecInit ==
    /\ Start
    /\ metadataHashAsBlobKey = FALSE
    /\ ttl = 0
    /\ EnableRatelimiter = FALSE
    /\ CountFailed = FALSE

CodecNext ==
    \/ HashBatchHeaders
    \/ RoundTripBatchHeader
    \/ RoundTripBlobHeader
    \/ HashBlobHeader
    \/ SetBatchRoot

CodecSpec == CodecInit /\ [][CodecNext]_vars

\* C20: GetBatchHeaderHash is keccak256 of the ABI encoding of
\* (BatchRoot, 0): the BatchRoot word followed by a zero word; headers with
\* equal BatchRoot have the same hash whatever their ReferenceBlockNumber,
\* headers with different BatchRoot have different hashes.
C20_BatchHeaderHash ==
    reply.op = "GetBatchHeaderHash" =>
        LET h1 == reply.arg[1]
            h2 == reply.arg[2]
        IN  /\ \A k \in 1..2 :
                   reply.res[k] =
                       [keccak256 |->
                           reply.arg[k].BatchRoot
                               \o [i \in 1..WordBytes |-> 0]]
            /\ h1.BatchRoot = h2.BatchRoot => reply.res[1] = reply.res[2]
            /\ h1.BatchRoot # h2.BatchRoot => reply.res[1] # reply.res[2]

C20_Witness ==
    /\ reply.op = "GetBatchHeaderHash"
    /\ reply.arg[1].BatchRoot = reply.arg[2].BatchRoot
    /\ reply.arg[1].ReferenceBlockNumber = 0
    /\ reply.arg[2].ReferenceBlockNumber = MaxBlock
    /\ reply.res[1] = reply.res[2]

\* C21: Deserialize(Serialize(x)) equals x for every batch header and blob
\* header x, whatever the receiver of Deserialize held before the call,
\* zero-valued fields and empty non-nil byte slices included.
C21_RoundTrip ==
    reply.op = "Deserialize" => reply.res = reply.arg.x

C22_Built == reply.op = "SetBatchRoot" /\ reply.err = ""

C22_HeaderHash(i) ==
    LegacyKeccak256(reply.arg.blobHeaders[i].CommitmentRoot[1])

C22_Verifies(i, j) ==
    VerifyProof(C22_HeaderHash(j), GenerateProof(reply.res.tree, i - 1),
                reply.res.h.BatchRoot)

\* C22 as stated: after SetBatchRoot the proof for leaf i verifies the header
\* hash of blob i against BatchRoot and the header hash of no other blob.
C22_NoOtherBlob ==
    C22_Built =>
        \A i, j \in 1..Len(reply.arg.blobHeaders) :
            C22_Verifies(i, j) <=> i = j

\* C22: after SetBatchRoot the i-th leaf is the header hash of the i-th blob
\* header: the proof for leaf i verifies the header hash of blob i against
\* BatchRoot, and it verifies the header hash of blob j exactly when j has
\* the header hash of i, that is the CommitmentRoot of i.
C22_Inclusion ==
    C22_Built =>
        \A i, j \in 1..Len(reply.arg.blobHeaders) :
            C22_Verifies(i, j) <=>
                reply.arg.blobHeaders[i].CommitmentRoot
                    = reply.arg.blobHeaders[j].CommitmentRoot

C22_Witness ==
    /\ C22_Built
    /\ Len(reply.arg.blobHeaders) = MaxHeaders
    /\ \E i, j \in 1..Len(reply.arg.blobHeaders) :
           /\ reply.arg.blobHeaders[i] # reply.arg.blobHeaders[j]
           /\ C22_Verifies(i, i)
           /\ ~C22_Verifies(i, j)

C27_Unusable(blobHeaders) ==
    \/ blobHeaders = <<>>
    \/ \E i \in 1..Len(blobHeaders) : blobHeaders[i].CommitmentRoot = NilBytes

C23_Fetched(i) ==
    /\ reply.arg.downOk[i]
    /\ ObjectKey(metadataHashAsBlobKey, reply.arg.metadata[i].BlobHash,
                 reply.arg.metadata[i].MetadataHash) \in DOMAIN s3

C23_Blob(i) ==
    [RequestHeader |-> reply.arg.metadata[i].RequestMetadata.BlobRequestHeader,
     Data |-> s3[ObjectKey(metadataHashAsBlobKey,
                           reply.arg.metadata[i].BlobHash,
                           reply.arg.metadata[i].MetadataHash)]]

\* C23: GetBlobsByMetadata returns, when every fetch succeeds, no error and
\* the map that holds exactly the blob keys of the given records, each with
\* the fetched bytes and the record's request header; when a fetch fails it
\* returns an error and no map.
C23_AllOrNothing ==
    reply.op = "GetBlobsByMetadata" =>
        LET n == Len(reply.arg.metadata) IN
        IF \A i \in 1..n : C23_Fetched(i)
        THEN /\ reply.err = ""
             /\ Len(reply.res) = 1
             /\ DOMAIN reply.res[1]
                    = {GetBlobKey(reply.arg.metadata[i]) : i \in 1..n}
             /\ \A i \in 1..n :
                    reply.res[1][GetBlobKey(reply.arg.metadata[i])]
                        = C23_Blob(i)
        ELSE /\ reply.err # ""
             /\ reply.res = <<>>

C23_Witness ==
    /\ reply.op = "GetBlobsByMetadata"
    /\ Len(reply.arg.metadata) > 1
    /\ C23_Fetched(1)
    /\ ~C23_Fetched(Len(reply.arg.metadata))
    /\ reply.err # ""
    /\ reply.res = <<>>

\* the record a StoreBlob made at request time requestedAt leaves under key
C24_Fresh(m, key, data, requestedAt) ==
    /\ m.BlobHash = key.BlobHash
    /\ m.MetadataHash = key.MetadataHash
    /\ key.MetadataHash[1] = requestedAt
    /\ m.BlobStatus = Processing
    /\ m.NumRetries = 0
    /\ m.ConfirmationInfo = <<>>
    /\ m.RequestMetadata.BlobSize = Len(data)
    /\ m.RequestMetadata.RequestedAt = requestedAt
    /\ m.Expiry = IF ttl = 0 THEN 0 ELSE now + ttl

C24_Step ==
    /\ (reply'.op = "StoreBlob" /\ reply'.err = "")
           => \E i \in 1..Len(metadataStore'), requestedAt \in ReqTimes :
                  C24_Fresh(metadataStore'[i], reply'.res, reply'.arg.Data,
                            requestedAt)
    /\ (reply'.op = "DisperseBlob" /\ reply'.err = "")
           => /\ reply'.res.Result = Processing
              /\ \E i \in 1..Len(metadataStore'), requestedAt \in ReqTimes :
                     /\ reply'.res.RequestId
                            = <<metadataStore'[i].BlobHash,
                                metadataStore'[i].MetadataHash>>
                     /\ C24_Fresh(metadataStore'[i],
                                  GetBlobKey(metadataStore'[i]),
                                  reply'.arg.Data, requestedAt)

\* C24: after a successful StoreBlob the record stored under the returned
\* key is Processing, has NumRetries 0, no ConfirmationInfo, the length of
\* the data as BlobSize, the request time as RequestedAt and Expiry 0 when
\* the ttl is 0, now + ttl otherwise; a successful DisperseBlob returns
\* Processing and the string of the key of such a record as request id.
C24_FreshMetadata == [][C24_Step]_vars

C24_Witness ==
    /\ reply.op = "DisperseBlob"
    /\ reply.err = ""
    /\ ttl > 0
    /\ now > 1
    /\ \E i \in 1..Len(metadataStore) :
           /\ reply.res.RequestId = KeyString(GetBlobKey(metadataStore[i]))
           /\ metadataStore[i].Expiry = now + ttl

\* the request of the last GetBlobStatus belongs to a blob no confirmation
\* is recorded for: its stored record, if any, is neither Confirmed nor
\* Finalized, and its KV entry, if any, is a stub with status Processing
C25_NeverConfirmed ==
    /\ \A i \in 1..Len(metadataStore) :
           KeyString(GetBlobKey(metadataStore[i])) = reply.arg.requestID
               => metadataStore[i].BlobStatus \notin {Confirmed, Finalized}
    /\ reply.arg.requestID \in DOMAIN kv
           => \/ ~DeserializeOk(kv[reply.arg.requestID])
              \/ Deserialize(kv[reply.arg.requestID]).BlobStatus = Processing

\* C25: GetBlobStatus reports neither Finalized nor Confirmed for a blob
\* that was never confirmed, a blob whose KV entry is a Processing stub with
\* ConfirmationBlockNumber 0 included, whatever latestFinalizedBlock is.
C25_NoFinalizedStub ==
    (reply.op = "GetBlobStatus" /\ reply.err = "" /\ C25_NeverConfirmed)
        => reply.res.Status \notin {Confirmed, Finalized}

\* a record with expiry new expires no earlier than one with expiry old,
\* expiry 0 being never
C26_NoEarlier(old, new) ==
    IF old = 0 THEN new = 0 ELSE new = 0 \/ new >= old

\* C26: MarkBlobConfirmed leaves a record that expires no earlier than
\* before the call; with ttl 0 a stored blob has Expiry 0, never, and keeps
\* it when it is confirmed.
C26_ExpiryPreserved ==
    reply.op = "ConfirmBlob" =>
        \A i \in 1..Len(metadataStore) :
            GetBlobKey(metadataStore[i]) = GetBlobKey(reply.arg)
                => /\ C26_NoEarlier(reply.arg.Expiry,
                                    metadataStore[i].Expiry)
                   /\ ttl = 0 => metadataStore[i].Expiry = 0

C28_Call ==
    /\ reply'.op = "AllowRequest"
    /\ ~\E i \in 1..Len(Allowlist) :
            Contains(reply'.arg.requesterID, Allowlist[i])

C28_Persisted ==
    /\ reply'.arg.requesterID \in DOMAIN bucketStore'
    /\ bucketStore'[reply'.arg.requesterID] =
           [BucketLevels |-> [i \in 1..Len(BucketSizes) |-> C16_NewLevel(i)],
            LastRequestTime |-> now]

C28_Step ==
    C28_Call =>
        /\ (reply'.res /\ reply'.err = "")
               => reply'.arg.updOk /\ C28_Persisted
        /\ (~reply'.arg.updOk /\ (reply'.res \/ CountFailed))
               => /\ reply'.err # ""
                  /\ reply'.res =
                         (\A i \in 1..Len(BucketSizes) : C16_NewLevel(i) > 0)
                  /\ bucketStore' = bucketStore
        /\ (~reply'.res /\ ~CountFailed) => reply'.err = ""

\* C28: for a non-allowlisted requester AllowRequest returns allowed with no
\* error only when UpdateItem stored the new bucket state; when UpdateItem
\* fails it returns the computed decision with the error; a request rejected
\* while CountFailed is false returns no error.
C28_WriteFailure == [][C28_Step]_vars

C28_Witness ==
    /\ reply.op = "AllowRequest"
    /\ reply.arg.requesterID = <<1>>
    /\ ~reply.arg.updOk
    /\ reply.res = TRUE
    /\ reply.err # ""
    /\ <<1>> \in DOMAIN bucketStore
    /\ bucketStore[<<1>>].LastRequestTime < now

\* the level of tier i the request leaves when it is computed on the
\* requester's stored state
C30_OnStored(i) ==
    LET old == bucketStore[reply'.arg.requesterID]
        raw == old.BucketLevels[i] + (now - old.LastRequestTime)
                   - C16_Deduction(i)
    IN  IF raw < 0 THEN 0
        ELSE IF raw > BucketSizes[i] THEN BucketSizes[i]
        ELSE raw

C30_Step ==
    ( /\ C28_Call
      /\ ~reply'.arg.getOk
      /\ reply'.arg.requesterID \in DOMAIN bucketStore )
        => /\ reply'.res => \A i \in 1..Len(BucketSizes) : C30_OnStored(i) > 0
           /\ \A i \in 1..Len(BucketSizes) :
                  LET new == bucketStore'[reply'.arg.requesterID]
                                 .BucketLevels[i]
                  IN  \/ new <= bucketStore[reply'.arg.requesterID]
                                    .BucketLevels[i]
                      \/ new <= C30_OnStored(i)

\* C30: when GetItem fails for a requester that has stored state, the
\* request is allowed only if it is allowed on the stored state, and no
\* persisted level is raised above both the stored level and the level the
\* stored state yields.
C30_NoRefillOnReadFailure == [][C30_Step]_vars

\* C29: a requester that is not allowlisted and keeps to the rate from first
\* sight on (deductions below the bucket sizes, requests at least the
\* largest deduction of the later one apart, store calls succeeding) has
\* every request allowed, with every tier's level left above 0.
C29_Step ==
    reply'.op = "AllowRequest" =>
        /\ reply'.res = TRUE
        /\ reply'.err = ""
        /\ \A i \in 1..Len(BucketSizes) :
               bucketStore'[reply'.arg.requesterID].BucketLevels[i] > 0

C29_NeverLimited == [][C29_Step]_vars

\* a request with a deduction on tier 1 that leaves tier 1 full: the
\* requester was known and the time since its last request paid for it
C29_Witness ==
    /\ reply.op = "AllowRequest"
    /\ reply.res = TRUE
    /\ reply.arg.blobSize * MicrosPerSecond >= reply.arg.rate
    /\ bucketStore[reply.arg.requesterID].LastRequestTime = now
    /\ bucketStore[reply.arg.requesterID].BucketLevels[1] = BucketSizes[1]

C31_Safe ==
    /\ Cardinality({i \in 1..fetch.n : fetch.task[i] = "running"})
           <= maxS3BlobFetchWorkers
    /\ \A i \in 1..fetch.n :
           fetch.task[i] = "running" => Len(fetch.chan) < fetch.cap
    /\ fetch.cap = fetch.n
    /\ Len(fetch.chan) + fetch.read
           = Cardinality({i \in 1..fetch.n : fetch.task[i] = "sent"})
    /\ fetch.closed => \A i \in 1..fetch.n : fetch.task[i] = "sent"
    /\ fetch.read <= fetch.n
    /\ fetch.pc = "done" =>
           \/ fetch.err = "" /\ fetch.read = fetch.n
           \/ fetch.err # "" /\ fetch.read >= 1

\* C31: a GetBlobsByMetadata call with n >= 0 entries, every download
\* returning, comes to its return: at most maxS3BlobFetchWorkers downloads
\* run at a time, every task sends one result on the channel of capacity n
\* and no send waits, the channel is closed after all tasks have finished,
\* and the collector reads at most n results.
C31_Terminates ==
    /\ []C31_Safe
    /\ (fetch.pc = "submit") ~> (fetch.pc = "done")

C31_Witness ==
    /\ fetch.pc = "done"
    /\ fetch.n > maxS3BlobFetchWorkers
    /\ fetch.err = ""
    /\ fetch.read = fetch.n

====
